---------------------------- MODULE Spec2Model ----------------------------
(***************************************************************************)
(* Hangman: the game engine (game/engine.py), the word source              *)
(* (game/wordlist.py) and the input gate (ui/display.py) as a state        *)
(* machine.                                                                *)
(*                                                                         *)
(* Strings that the code takes apart (words, guesses, category names,      *)
(* lines typed at a prompt, progress renderings) are sequences of          *)
(* one-character strings.  The module-level globals of engine.py are the   *)
(* variables, under their own names.                                       *)
(***************************************************************************)
EXTENDS Integers, Sequences, FiniteSets, TLC

VARIABLES
    pc,                  \* where main / run_game / play_game stands
    words_dir,           \* the words directory main.py hands to initialize_game
    all_words,           \* wordlist._all_words
    category_words,      \* wordlist._category_words
    current_word,        \* engine.current_word
    current_category,    \* engine.current_category
    guessed_letters,     \* engine.guessed_letters
    correct_letters,     \* engine.correct_letters
    wrong_letters,       \* engine.wrong_letters
    wrong_guesses,       \* engine.wrong_guesses
    game_won,            \* engine.game_won
    game_lost,           \* engine.game_lost
    guess_count,         \* engine.guess_count
    progress_trace,      \* engine.progress_trace
    current_game_number, \* engine.current_game_number
    game_dirs,           \* numbers N of the directories game_log/game<N>
    result,              \* play_game's local: what the last guess returned
    score,               \* end_game's local: what calculate_score returned
    keys,                \* the lines this session's player types: keys.letter
                         \* at the letter prompt, keys.word at the word prompt;
                         \* keys.games: the games the player starts at most;
                         \* keys.tidy: whether game directories get deleted
    wrong_word_guesses,  \* history: wrong whole-word guesses of this game
    stats_file,          \* what statistics.json holds (engine.stats_file)
    stats_writable,      \* whether statistics.json can be opened for writing
    log_writable,        \* whether a directory can be made in game_log (and
                         \* game_log itself, where it does not exist yet)
    stats,               \* end_game's local: what update_statistics returned
    logs,                \* N |-> what game_log/game<N>/log.txt holds
    started,             \* run_game: what start_new_game last returned
    end_calls,           \* history: the steps end_game has taken for this game
    letter_guesses,      \* history: letter guesses of this game, repeats left out
    word_guesses,        \* history: whole-word guesses of this game
    game_numbers,        \* history: the game numbers this session has assigned
    outcomes,            \* history: the (won, score) pairs update_statistics took
    stats0,              \* history: what statistics.json held at the start
    stats_before,        \* history: what statistics.json held when this game
                         \* started
    guess_order          \* history: the letters accepted at the letter prompt
                         \* in this game, in the order of their first guess

\* The files the program reads and writes, apart from the directories.
filevars == <<stats_file, stats_writable, log_writable, stats, logs>>

\* The history variables of the end of a game and of the session.
histvars == <<end_calls, game_numbers, outcomes, stats0, stats_before>>

\* The history variables that count the guesses of a game.
countvars == <<wrong_word_guesses, letter_guesses, word_guesses, guess_order>>

\* The words directory and what load_words has read from it.
wordvars == <<words_dir, all_words, category_words>>

vars == <<pc, words_dir, all_words, category_words, current_word,
          current_category,
          guessed_letters, correct_letters, wrong_letters, wrong_guesses,
          game_won, game_lost, guess_count, progress_trace,
          current_game_number, game_dirs, result, score, keys,
          wrong_word_guesses, stats_file, stats_writable, log_writable,
          stats, logs,
          started, end_calls, letter_guesses, word_guesses, game_numbers,
          outcomes, stats0, stats_before, guess_order>>

\* The globals a guess can change, as engine.py declares them (lines 18-28).
gamevars == <<current_word, current_category, guessed_letters, correct_letters,
              wrong_letters, wrong_guesses, game_won, game_lost, guess_count,
              progress_trace>>

(***************************************************************************)
(* Bounds of the model.                                                    *)
(***************************************************************************)
\* Games one session may start, for the players who play more than one.
MaxGames == 2
\* Calls of update_statistics in SpecStats.
MaxOutcomes == 3
\* Largest wrong-guess count handed to calculate_score in SpecScore.
MaxWrongArg == 10
\* Longest word handed to calculate_score in SpecScore.
MaxWordLen == 5

(***************************************************************************)
(* Characters.  A character is a one-character string.  A TLA+ string      *)
(* holds the characters up to U+00FF (Latin-1), and those are written as   *)
(* themselves (the grave accent U+0060, which a TLA+ string cannot hold,   *)
(* aside).  Any other character is written by its code point, "U+0663":    *)
(* Chr gives the name of a code point.  The tables of code points are      *)
(* those of Unicode 14.0.0, which str.isalpha(), str.lower() and int() of  *)
(* Python 3.11 follow.                                                     *)
(***************************************************************************)
\* The letters of Latin-1 that have both cases there, in code point order:
\* LowerAlphabet[i] is str.lower() of UpperAlphabet[i], UpperAlphabet[i] is
\* str.upper() of LowerAlphabet[i].
LowerAlphabet ==
    << "a", "b", "c", "d", "e", "f", "g", "h", "i", "j", "k", "l", "m",
       "n", "o", "p", "q", "r", "s", "t", "u", "v", "w", "x", "y", "z",
       "à", "á", "â", "ã", "ä", "å", "æ", "ç", "è", "é", "ê", "ë", "ì",
       "í", "î", "ï", "ð", "ñ", "ò", "ó", "ô", "õ", "ö", "ø", "ù", "ú",
       "û", "ü", "ý", "þ" >>
UpperAlphabet ==
    << "A", "B", "C", "D", "E", "F", "G", "H", "I", "J", "K", "L", "M",
       "N", "O", "P", "Q", "R", "S", "T", "U", "V", "W", "X", "Y", "Z",
       "À", "Á", "Â", "Ã", "Ä", "Å", "Æ", "Ç", "È", "É", "Ê", "Ë", "Ì",
       "Í", "Î", "Ï", "Ð", "Ñ", "Ò", "Ó", "Ô", "Õ", "Ö", "Ø", "Ù", "Ú",
       "Û", "Ü", "Ý", "Þ" >>
LowerLetters == {LowerAlphabet[i] : i \in DOMAIN LowerAlphabet}
UpperLetters == {UpperAlphabet[i] : i \in DOMAIN UpperAlphabet}
\* The letters of Latin-1 that str.lower() leaves as they are and whose
\* capital is not in Latin-1 or does not exist: sharp s, y with diaeresis,
\* the micro sign, the two ordinal indicators.
OtherLetters == {"ß", "ÿ", "µ", "ª", "º"}
None == "None"

\* Each capital's lower-case letter, each lower-case letter's capital.
LowerOf ==
    [c \in UpperLetters |->
        LowerAlphabet[CHOOSE i \in DOMAIN UpperAlphabet : UpperAlphabet[i] = c]]
UpperOf ==
    [c \in LowerLetters |->
        UpperAlphabet[CHOOSE i \in DOMAIN LowerAlphabet : LowerAlphabet[i] = c]]

\* The name of a character beyond U+00FF: "U+" and the code point in at
\* least four hexadecimal digits.
HexDigits ==
    << "0", "1", "2", "3", "4", "5", "6", "7",
       "8", "9", "A", "B", "C", "D", "E", "F" >>
RECURSIVE Hex(_, _)
Hex(n, width) ==
    IF n = 0 /\ width <= 0 THEN ""
    ELSE Hex(n \div 16, width - 1) \o HexDigits[(n % 16) + 1]
Chr(n) == "U+" \o Hex(n, 4)

\* The characters of a table of code point ranges <<first, last>>.
Codes(ranges) == UNION {ranges[i][1]..ranges[i][2] : i \in DOMAIN ranges}
Chars(ranges) == {Chr(n) : n \in Codes(ranges)}

\* The characters beyond U+00FF that str.lower() changes.  A row
\* <<first, last, step, d>> stands for the code points first, first + step,
\* ... up to last, each of which str.lower() takes to the code point d
\* further on.
LowerRuns ==
    << <<\h0100, \h012E, 2, 1>>, <<\h0132, \h0136, 2, 1>>, <<\h0139, \h0147, 2, 1>>,
       <<\h014A, \h0176, 2, 1>>, <<\h0179, \h017D, 2, 1>>, <<\h0181, \h0181, 1, 210>>,
       <<\h0182, \h0184, 2, 1>>, <<\h0186, \h0186, 1, 206>>, <<\h0187, \h0187, 1, 1>>,
       <<\h0189, \h018A, 1, 205>>, <<\h018B, \h018B, 1, 1>>, <<\h018E, \h018E, 1, 79>>,
       <<\h018F, \h018F, 1, 202>>, <<\h0190, \h0190, 1, 203>>, <<\h0191, \h0191, 1, 1>>,
       <<\h0193, \h0193, 1, 205>>, <<\h0194, \h0194, 1, 207>>, <<\h0196, \h0196, 1, 211>>,
       <<\h0197, \h0197, 1, 209>>, <<\h0198, \h0198, 1, 1>>, <<\h019C, \h019C, 1, 211>>,
       <<\h019D, \h019D, 1, 213>>, <<\h019F, \h019F, 1, 214>>, <<\h01A0, \h01A4, 2, 1>>,
       <<\h01A6, \h01A6, 1, 218>>, <<\h01A7, \h01A7, 1, 1>>, <<\h01A9, \h01A9, 1, 218>>,
       <<\h01AC, \h01AC, 1, 1>>, <<\h01AE, \h01AE, 1, 218>>, <<\h01AF, \h01AF, 1, 1>>,
       <<\h01B1, \h01B2, 1, 217>>, <<\h01B3, \h01B5, 2, 1>>, <<\h01B7, \h01B7, 1, 219>>,
       <<\h01B8, \h01B8, 1, 1>>, <<\h01BC, \h01BC, 1, 1>>, <<\h01C4, \h01C4, 1, 2>>,
       <<\h01C5, \h01C5, 1, 1>>, <<\h01C7, \h01C7, 1, 2>>, <<\h01C8, \h01C8, 1, 1>>,
       <<\h01CA, \h01CA, 1, 2>>, <<\h01CB, \h01DB, 2, 1>>, <<\h01DE, \h01EE, 2, 1>>,
       <<\h01F1, \h01F1, 1, 2>>, <<\h01F2, \h01F4, 2, 1>>, <<\h01F6, \h01F6, 1, -97>>,
       <<\h01F7, \h01F7, 1, -56>>, <<\h01F8, \h021E, 2, 1>>, <<\h0220, \h0220, 1, -130>>,
       <<\h0222, \h0232, 2, 1>>, <<\h023A, \h023A, 1, 10795>>, <<\h023B, \h023B, 1, 1>>,
       <<\h023D, \h023D, 1, -163>>, <<\h023E, \h023E, 1, 10792>>, <<\h0241, \h0241, 1, 1>>,
       <<\h0243, \h0243, 1, -195>>, <<\h0244, \h0244, 1, 69>>, <<\h0245, \h0245, 1, 71>>,
       <<\h0246, \h024E, 2, 1>>, <<\h0370, \h0372, 2, 1>>, <<\h0376, \h0376, 1, 1>>,
       <<\h037F, \h037F, 1, 116>>, <<\h0386, \h0386, 1, 38>>, <<\h0388, \h038A, 1, 37>>,
       <<\h038C, \h038C, 1, 64>>, <<\h038E, \h038F, 1, 63>>, <<\h0391, \h03A1, 1, 32>>,
       <<\h03A3, \h03AB, 1, 32>>, <<\h03CF, \h03CF, 1, 8>>, <<\h03D8, \h03EE, 2, 1>>,
       <<\h03F4, \h03F4, 1, -60>>, <<\h03F7, \h03F7, 1, 1>>, <<\h03F9, \h03F9, 1, -7>>,
       <<\h03FA, \h03FA, 1, 1>>, <<\h03FD, \h03FF, 1, -130>>, <<\h0400, \h040F, 1, 80>>,
       <<\h0410, \h042F, 1, 32>>, <<\h0460, \h0480, 2, 1>>, <<\h048A, \h04BE, 2, 1>>,
       <<\h04C0, \h04C0, 1, 15>>, <<\h04C1, \h04CD, 2, 1>>, <<\h04D0, \h052E, 2, 1>>,
       <<\h0531, \h0556, 1, 48>>, <<\h10A0, \h10C5, 1, 7264>>, <<\h10C7, \h10C7, 1, 7264>>,
       <<\h10CD, \h10CD, 1, 7264>>, <<\h13A0, \h13EF, 1, 38864>>, <<\h13F0, \h13F5, 1, 8>>,
       <<\h1C90, \h1CBA, 1, -3008>>, <<\h1CBD, \h1CBF, 1, -3008>>, <<\h1E00, \h1E94, 2, 1>>,
       <<\h1EA0, \h1EFE, 2, 1>>, <<\h1F08, \h1F0F, 1, -8>>, <<\h1F18, \h1F1D, 1, -8>>,
       <<\h1F28, \h1F2F, 1, -8>>, <<\h1F38, \h1F3F, 1, -8>>, <<\h1F48, \h1F4D, 1, -8>>,
       <<\h1F59, \h1F5F, 2, -8>>, <<\h1F68, \h1F6F, 1, -8>>, <<\h1F88, \h1F8F, 1, -8>>,
       <<\h1F98, \h1F9F, 1, -8>>, <<\h1FA8, \h1FAF, 1, -8>>, <<\h1FB8, \h1FB9, 1, -8>>,
       <<\h1FBA, \h1FBB, 1, -74>>, <<\h1FBC, \h1FBC, 1, -9>>, <<\h1FC8, \h1FCB, 1, -86>>,
       <<\h1FCC, \h1FCC, 1, -9>>, <<\h1FD8, \h1FD9, 1, -8>>, <<\h1FDA, \h1FDB, 1, -100>>,
       <<\h1FE8, \h1FE9, 1, -8>>, <<\h1FEA, \h1FEB, 1, -112>>, <<\h1FEC, \h1FEC, 1, -7>>,
       <<\h1FF8, \h1FF9, 1, -128>>, <<\h1FFA, \h1FFB, 1, -126>>, <<\h1FFC, \h1FFC, 1, -9>>,
       <<\h2126, \h2126, 1, -7517>>, <<\h2132, \h2132, 1, 28>>, <<\h2160, \h216F, 1, 16>>,
       <<\h2183, \h2183, 1, 1>>, <<\h24B6, \h24CF, 1, 26>>, <<\h2C00, \h2C2F, 1, 48>>,
       <<\h2C60, \h2C60, 1, 1>>, <<\h2C62, \h2C62, 1, -10743>>, <<\h2C63, \h2C63, 1, -3814>>,
       <<\h2C64, \h2C64, 1, -10727>>, <<\h2C67, \h2C6B, 2, 1>>, <<\h2C6D, \h2C6D, 1, -10780>>,
       <<\h2C6E, \h2C6E, 1, -10749>>, <<\h2C6F, \h2C6F, 1, -10783>>, <<\h2C70, \h2C70, 1, -10782>>,
       <<\h2C72, \h2C72, 1, 1>>, <<\h2C75, \h2C75, 1, 1>>, <<\h2C7E, \h2C7F, 1, -10815>>,
       <<\h2C80, \h2CE2, 2, 1>>, <<\h2CEB, \h2CED, 2, 1>>, <<\h2CF2, \h2CF2, 1, 1>>,
       <<\hA640, \hA66C, 2, 1>>, <<\hA680, \hA69A, 2, 1>>, <<\hA722, \hA72E, 2, 1>>,
       <<\hA732, \hA76E, 2, 1>>, <<\hA779, \hA77B, 2, 1>>, <<\hA77D, \hA77D, 1, -35332>>,
       <<\hA77E, \hA786, 2, 1>>, <<\hA78B, \hA78B, 1, 1>>, <<\hA78D, \hA78D, 1, -42280>>,
       <<\hA790, \hA792, 2, 1>>, <<\hA796, \hA7A8, 2, 1>>, <<\hA7AA, \hA7AA, 1, -42308>>,
       <<\hA7AB, \hA7AB, 1, -42319>>, <<\hA7AC, \hA7AC, 1, -42315>>, <<\hA7AD, \hA7AD, 1, -42305>>,
       <<\hA7AE, \hA7AE, 1, -42308>>, <<\hA7B0, \hA7B0, 1, -42258>>, <<\hA7B1, \hA7B1, 1, -42282>>,
       <<\hA7B2, \hA7B2, 1, -42261>>, <<\hA7B3, \hA7B3, 1, 928>>, <<\hA7B4, \hA7C2, 2, 1>>,
       <<\hA7C4, \hA7C4, 1, -48>>, <<\hA7C5, \hA7C5, 1, -42307>>, <<\hA7C6, \hA7C6, 1, -35384>>,
       <<\hA7C7, \hA7C9, 2, 1>>, <<\hA7D0, \hA7D0, 1, 1>>, <<\hA7D6, \hA7D8, 2, 1>>,
       <<\hA7F5, \hA7F5, 1, 1>>, <<\hFF21, \hFF3A, 1, 32>>, <<\h10400, \h10427, 1, 40>>,
       <<\h104B0, \h104D3, 1, 40>>, <<\h10570, \h1057A, 1, 39>>, <<\h1057C, \h1058A, 1, 39>>,
       <<\h1058C, \h10592, 1, 39>>, <<\h10594, \h10595, 1, 39>>, <<\h10C80, \h10CB2, 1, 64>>,
       <<\h118A0, \h118BF, 1, 32>>, <<\h16E40, \h16E5F, 1, 32>>, <<\h1E900, \h1E921, 1, 34>> >>
\* The pairs <<character, str.lower() of it>> of LowerRuns; the four
\* characters beyond U+00FF whose lower case is in Latin-1 (capital y with
\* diaeresis, capital sharp s, the Kelvin and Angstrom signs); and capital
\* I with dot above, whose lower case is two characters.
LowerPairs ==
    UNION {{<<Chr(n), <<Chr(n + LowerRuns[r][4])>>>> :
              n \in {m \in LowerRuns[r][1]..LowerRuns[r][2] :
                        (m - LowerRuns[r][1]) % LowerRuns[r][3] = 0}} :
           r \in DOMAIN LowerRuns}
    \cup {<<"U+0178", <<"ÿ">>>>, <<"U+1E9E", <<"ß">>>>,
          <<"U+212A", <<"k">>>>, <<"U+212B", <<"å">>>>,
          <<"U+0130", <<"i", "U+0307">>>>}
UpperBeyond == {p[1] : p \in LowerPairs}
LowerBeyond ==
    [c \in UpperBeyond |-> (CHOOSE p \in LowerPairs : p[1] = c)[2]]

\* str.lower() on a one-character string: the string it gives.
Lower(c) ==
    IF c \in UpperLetters THEN <<LowerOf[c]>>
    ELSE IF c \in UpperBeyond THEN LowerBeyond[c]
    ELSE <<c>>

\* str.upper() on one character that has its capital in Latin-1.
Upper(c) == IF c \in LowerLetters THEN UpperOf[c] ELSE c

\* The code points beyond U+00FF of the characters str.isalpha() is true
\* of.
AlphaRanges ==
    << <<\h0100, \h02C1>>, <<\h02C6, \h02D1>>, <<\h02E0, \h02E4>>, <<\h02EC, \h02EC>>,
       <<\h02EE, \h02EE>>, <<\h0370, \h0374>>, <<\h0376, \h0377>>, <<\h037A, \h037D>>,
       <<\h037F, \h037F>>, <<\h0386, \h0386>>, <<\h0388, \h038A>>, <<\h038C, \h038C>>,
       <<\h038E, \h03A1>>, <<\h03A3, \h03F5>>, <<\h03F7, \h0481>>, <<\h048A, \h052F>>,
       <<\h0531, \h0556>>, <<\h0559, \h0559>>, <<\h0560, \h0588>>, <<\h05D0, \h05EA>>,
       <<\h05EF, \h05F2>>, <<\h0620, \h064A>>, <<\h066E, \h066F>>, <<\h0671, \h06D3>>,
       <<\h06D5, \h06D5>>, <<\h06E5, \h06E6>>, <<\h06EE, \h06EF>>, <<\h06FA, \h06FC>>,
       <<\h06FF, \h06FF>>, <<\h0710, \h0710>>, <<\h0712, \h072F>>, <<\h074D, \h07A5>>,
       <<\h07B1, \h07B1>>, <<\h07CA, \h07EA>>, <<\h07F4, \h07F5>>, <<\h07FA, \h07FA>>,
       <<\h0800, \h0815>>, <<\h081A, \h081A>>, <<\h0824, \h0824>>, <<\h0828, \h0828>>,
       <<\h0840, \h0858>>, <<\h0860, \h086A>>, <<\h0870, \h0887>>, <<\h0889, \h088E>>,
       <<\h08A0, \h08C9>>, <<\h0904, \h0939>>, <<\h093D, \h093D>>, <<\h0950, \h0950>>,
       <<\h0958, \h0961>>, <<\h0971, \h0980>>, <<\h0985, \h098C>>, <<\h098F, \h0990>>,
       <<\h0993, \h09A8>>, <<\h09AA, \h09B0>>, <<\h09B2, \h09B2>>, <<\h09B6, \h09B9>>,
       <<\h09BD, \h09BD>>, <<\h09CE, \h09CE>>, <<\h09DC, \h09DD>>, <<\h09DF, \h09E1>>,
       <<\h09F0, \h09F1>>, <<\h09FC, \h09FC>>, <<\h0A05, \h0A0A>>, <<\h0A0F, \h0A10>>,
       <<\h0A13, \h0A28>>, <<\h0A2A, \h0A30>>, <<\h0A32, \h0A33>>, <<\h0A35, \h0A36>>,
       <<\h0A38, \h0A39>>, <<\h0A59, \h0A5C>>, <<\h0A5E, \h0A5E>>, <<\h0A72, \h0A74>>,
       <<\h0A85, \h0A8D>>, <<\h0A8F, \h0A91>>, <<\h0A93, \h0AA8>>, <<\h0AAA, \h0AB0>>,
       <<\h0AB2, \h0AB3>>, <<\h0AB5, \h0AB9>>, <<\h0ABD, \h0ABD>>, <<\h0AD0, \h0AD0>>,
       <<\h0AE0, \h0AE1>>, <<\h0AF9, \h0AF9>>, <<\h0B05, \h0B0C>>, <<\h0B0F, \h0B10>>,
       <<\h0B13, \h0B28>>, <<\h0B2A, \h0B30>>, <<\h0B32, \h0B33>>, <<\h0B35, \h0B39>>,
       <<\h0B3D, \h0B3D>>, <<\h0B5C, \h0B5D>>, <<\h0B5F, \h0B61>>, <<\h0B71, \h0B71>>,
       <<\h0B83, \h0B83>>, <<\h0B85, \h0B8A>>, <<\h0B8E, \h0B90>>, <<\h0B92, \h0B95>>,
       <<\h0B99, \h0B9A>>, <<\h0B9C, \h0B9C>>, <<\h0B9E, \h0B9F>>, <<\h0BA3, \h0BA4>>,
       <<\h0BA8, \h0BAA>>, <<\h0BAE, \h0BB9>>, <<\h0BD0, \h0BD0>>, <<\h0C05, \h0C0C>>,
       <<\h0C0E, \h0C10>>, <<\h0C12, \h0C28>>, <<\h0C2A, \h0C39>>, <<\h0C3D, \h0C3D>>,
       <<\h0C58, \h0C5A>>, <<\h0C5D, \h0C5D>>, <<\h0C60, \h0C61>>, <<\h0C80, \h0C80>>,
       <<\h0C85, \h0C8C>>, <<\h0C8E, \h0C90>>, <<\h0C92, \h0CA8>>, <<\h0CAA, \h0CB3>>,
       <<\h0CB5, \h0CB9>>, <<\h0CBD, \h0CBD>>, <<\h0CDD, \h0CDE>>, <<\h0CE0, \h0CE1>>,
       <<\h0CF1, \h0CF2>>, <<\h0D04, \h0D0C>>, <<\h0D0E, \h0D10>>, <<\h0D12, \h0D3A>>,
       <<\h0D3D, \h0D3D>>, <<\h0D4E, \h0D4E>>, <<\h0D54, \h0D56>>, <<\h0D5F, \h0D61>>,
       <<\h0D7A, \h0D7F>>, <<\h0D85, \h0D96>>, <<\h0D9A, \h0DB1>>, <<\h0DB3, \h0DBB>>,
       <<\h0DBD, \h0DBD>>, <<\h0DC0, \h0DC6>>, <<\h0E01, \h0E30>>, <<\h0E32, \h0E33>>,
       <<\h0E40, \h0E46>>, <<\h0E81, \h0E82>>, <<\h0E84, \h0E84>>, <<\h0E86, \h0E8A>>,
       <<\h0E8C, \h0EA3>>, <<\h0EA5, \h0EA5>>, <<\h0EA7, \h0EB0>>, <<\h0EB2, \h0EB3>>,
       <<\h0EBD, \h0EBD>>, <<\h0EC0, \h0EC4>>, <<\h0EC6, \h0EC6>>, <<\h0EDC, \h0EDF>>,
       <<\h0F00, \h0F00>>, <<\h0F40, \h0F47>>, <<\h0F49, \h0F6C>>, <<\h0F88, \h0F8C>>,
       <<\h1000, \h102A>>, <<\h103F, \h103F>>, <<\h1050, \h1055>>, <<\h105A, \h105D>>,
       <<\h1061, \h1061>>, <<\h1065, \h1066>>, <<\h106E, \h1070>>, <<\h1075, \h1081>>,
       <<\h108E, \h108E>>, <<\h10A0, \h10C5>>, <<\h10C7, \h10C7>>, <<\h10CD, \h10CD>>,
       <<\h10D0, \h10FA>>, <<\h10FC, \h1248>>, <<\h124A, \h124D>>, <<\h1250, \h1256>>,
       <<\h1258, \h1258>>, <<\h125A, \h125D>>, <<\h1260, \h1288>>, <<\h128A, \h128D>>,
       <<\h1290, \h12B0>>, <<\h12B2, \h12B5>>, <<\h12B8, \h12BE>>, <<\h12C0, \h12C0>>,
       <<\h12C2, \h12C5>>, <<\h12C8, \h12D6>>, <<\h12D8, \h1310>>, <<\h1312, \h1315>>,
       <<\h1318, \h135A>>, <<\h1380, \h138F>>, <<\h13A0, \h13F5>>, <<\h13F8, \h13FD>>,
       <<\h1401, \h166C>>, <<\h166F, \h167F>>, <<\h1681, \h169A>>, <<\h16A0, \h16EA>>,
       <<\h16F1, \h16F8>>, <<\h1700, \h1711>>, <<\h171F, \h1731>>, <<\h1740, \h1751>>,
       <<\h1760, \h176C>>, <<\h176E, \h1770>>, <<\h1780, \h17B3>>, <<\h17D7, \h17D7>>,
       <<\h17DC, \h17DC>>, <<\h1820, \h1878>>, <<\h1880, \h1884>>, <<\h1887, \h18A8>>,
       <<\h18AA, \h18AA>>, <<\h18B0, \h18F5>>, <<\h1900, \h191E>>, <<\h1950, \h196D>>,
       <<\h1970, \h1974>>, <<\h1980, \h19AB>>, <<\h19B0, \h19C9>>, <<\h1A00, \h1A16>>,
       <<\h1A20, \h1A54>>, <<\h1AA7, \h1AA7>>, <<\h1B05, \h1B33>>, <<\h1B45, \h1B4C>>,
       <<\h1B83, \h1BA0>>, <<\h1BAE, \h1BAF>>, <<\h1BBA, \h1BE5>>, <<\h1C00, \h1C23>>,
       <<\h1C4D, \h1C4F>>, <<\h1C5A, \h1C7D>>, <<\h1C80, \h1C88>>, <<\h1C90, \h1CBA>>,
       <<\h1CBD, \h1CBF>>, <<\h1CE9, \h1CEC>>, <<\h1CEE, \h1CF3>>, <<\h1CF5, \h1CF6>>,
       <<\h1CFA, \h1CFA>>, <<\h1D00, \h1DBF>>, <<\h1E00, \h1F15>>, <<\h1F18, \h1F1D>>,
       <<\h1F20, \h1F45>>, <<\h1F48, \h1F4D>>, <<\h1F50, \h1F57>>, <<\h1F59, \h1F59>>,
       <<\h1F5B, \h1F5B>>, <<\h1F5D, \h1F5D>>, <<\h1F5F, \h1F7D>>, <<\h1F80, \h1FB4>>,
       <<\h1FB6, \h1FBC>>, <<\h1FBE, \h1FBE>>, <<\h1FC2, \h1FC4>>, <<\h1FC6, \h1FCC>>,
       <<\h1FD0, \h1FD3>>, <<\h1FD6, \h1FDB>>, <<\h1FE0, \h1FEC>>, <<\h1FF2, \h1FF4>>,
       <<\h1FF6, \h1FFC>>, <<\h2071, \h2071>>, <<\h207F, \h207F>>, <<\h2090, \h209C>>,
       <<\h2102, \h2102>>, <<\h2107, \h2107>>, <<\h210A, \h2113>>, <<\h2115, \h2115>>,
       <<\h2119, \h211D>>, <<\h2124, \h2124>>, <<\h2126, \h2126>>, <<\h2128, \h2128>>,
       <<\h212A, \h212D>>, <<\h212F, \h2139>>, <<\h213C, \h213F>>, <<\h2145, \h2149>>,
       <<\h214E, \h214E>>, <<\h2183, \h2184>>, <<\h2C00, \h2CE4>>, <<\h2CEB, \h2CEE>>,
       <<\h2CF2, \h2CF3>>, <<\h2D00, \h2D25>>, <<\h2D27, \h2D27>>, <<\h2D2D, \h2D2D>>,
       <<\h2D30, \h2D67>>, <<\h2D6F, \h2D6F>>, <<\h2D80, \h2D96>>, <<\h2DA0, \h2DA6>>,
       <<\h2DA8, \h2DAE>>, <<\h2DB0, \h2DB6>>, <<\h2DB8, \h2DBE>>, <<\h2DC0, \h2DC6>>,
       <<\h2DC8, \h2DCE>>, <<\h2DD0, \h2DD6>>, <<\h2DD8, \h2DDE>>, <<\h2E2F, \h2E2F>>,
       <<\h3005, \h3006>>, <<\h3031, \h3035>>, <<\h303B, \h303C>>, <<\h3041, \h3096>>,
       <<\h309D, \h309F>>, <<\h30A1, \h30FA>>, <<\h30FC, \h30FF>>, <<\h3105, \h312F>>,
       <<\h3131, \h318E>>, <<\h31A0, \h31BF>>, <<\h31F0, \h31FF>>, <<\h3400, \h4DBF>>,
       <<\h4E00, \hA48C>>, <<\hA4D0, \hA4FD>>, <<\hA500, \hA60C>>, <<\hA610, \hA61F>>,
       <<\hA62A, \hA62B>>, <<\hA640, \hA66E>>, <<\hA67F, \hA69D>>, <<\hA6A0, \hA6E5>>,
       <<\hA717, \hA71F>>, <<\hA722, \hA788>>, <<\hA78B, \hA7CA>>, <<\hA7D0, \hA7D1>>,
       <<\hA7D3, \hA7D3>>, <<\hA7D5, \hA7D9>>, <<\hA7F2, \hA801>>, <<\hA803, \hA805>>,
       <<\hA807, \hA80A>>, <<\hA80C, \hA822>>, <<\hA840, \hA873>>, <<\hA882, \hA8B3>>,
       <<\hA8F2, \hA8F7>>, <<\hA8FB, \hA8FB>>, <<\hA8FD, \hA8FE>>, <<\hA90A, \hA925>>,
       <<\hA930, \hA946>>, <<\hA960, \hA97C>>, <<\hA984, \hA9B2>>, <<\hA9CF, \hA9CF>>,
       <<\hA9E0, \hA9E4>>, <<\hA9E6, \hA9EF>>, <<\hA9FA, \hA9FE>>, <<\hAA00, \hAA28>>,
       <<\hAA40, \hAA42>>, <<\hAA44, \hAA4B>>, <<\hAA60, \hAA76>>, <<\hAA7A, \hAA7A>>,
       <<\hAA7E, \hAAAF>>, <<\hAAB1, \hAAB1>>, <<\hAAB5, \hAAB6>>, <<\hAAB9, \hAABD>>,
       <<\hAAC0, \hAAC0>>, <<\hAAC2, \hAAC2>>, <<\hAADB, \hAADD>>, <<\hAAE0, \hAAEA>>,
       <<\hAAF2, \hAAF4>>, <<\hAB01, \hAB06>>, <<\hAB09, \hAB0E>>, <<\hAB11, \hAB16>>,
       <<\hAB20, \hAB26>>, <<\hAB28, \hAB2E>>, <<\hAB30, \hAB5A>>, <<\hAB5C, \hAB69>>,
       <<\hAB70, \hABE2>>, <<\hAC00, \hD7A3>>, <<\hD7B0, \hD7C6>>, <<\hD7CB, \hD7FB>>,
       <<\hF900, \hFA6D>>, <<\hFA70, \hFAD9>>, <<\hFB00, \hFB06>>, <<\hFB13, \hFB17>>,
       <<\hFB1D, \hFB1D>>, <<\hFB1F, \hFB28>>, <<\hFB2A, \hFB36>>, <<\hFB38, \hFB3C>>,
       <<\hFB3E, \hFB3E>>, <<\hFB40, \hFB41>>, <<\hFB43, \hFB44>>, <<\hFB46, \hFBB1>>,
       <<\hFBD3, \hFD3D>>, <<\hFD50, \hFD8F>>, <<\hFD92, \hFDC7>>, <<\hFDF0, \hFDFB>>,
       <<\hFE70, \hFE74>>, <<\hFE76, \hFEFC>>, <<\hFF21, \hFF3A>>, <<\hFF41, \hFF5A>>,
       <<\hFF66, \hFFBE>>, <<\hFFC2, \hFFC7>>, <<\hFFCA, \hFFCF>>, <<\hFFD2, \hFFD7>>,
       <<\hFFDA, \hFFDC>>, <<\h10000, \h1000B>>, <<\h1000D, \h10026>>, <<\h10028, \h1003A>>,
       <<\h1003C, \h1003D>>, <<\h1003F, \h1004D>>, <<\h10050, \h1005D>>, <<\h10080, \h100FA>>,
       <<\h10280, \h1029C>>, <<\h102A0, \h102D0>>, <<\h10300, \h1031F>>, <<\h1032D, \h10340>>,
       <<\h10342, \h10349>>, <<\h10350, \h10375>>, <<\h10380, \h1039D>>, <<\h103A0, \h103C3>>,
       <<\h103C8, \h103CF>>, <<\h10400, \h1049D>>, <<\h104B0, \h104D3>>, <<\h104D8, \h104FB>>,
       <<\h10500, \h10527>>, <<\h10530, \h10563>>, <<\h10570, \h1057A>>, <<\h1057C, \h1058A>>,
       <<\h1058C, \h10592>>, <<\h10594, \h10595>>, <<\h10597, \h105A1>>, <<\h105A3, \h105B1>>,
       <<\h105B3, \h105B9>>, <<\h105BB, \h105BC>>, <<\h10600, \h10736>>, <<\h10740, \h10755>>,
       <<\h10760, \h10767>>, <<\h10780, \h10785>>, <<\h10787, \h107B0>>, <<\h107B2, \h107BA>>,
       <<\h10800, \h10805>>, <<\h10808, \h10808>>, <<\h1080A, \h10835>>, <<\h10837, \h10838>>,
       <<\h1083C, \h1083C>>, <<\h1083F, \h10855>>, <<\h10860, \h10876>>, <<\h10880, \h1089E>>,
       <<\h108E0, \h108F2>>, <<\h108F4, \h108F5>>, <<\h10900, \h10915>>, <<\h10920, \h10939>>,
       <<\h10980, \h109B7>>, <<\h109BE, \h109BF>>, <<\h10A00, \h10A00>>, <<\h10A10, \h10A13>>,
       <<\h10A15, \h10A17>>, <<\h10A19, \h10A35>>, <<\h10A60, \h10A7C>>, <<\h10A80, \h10A9C>>,
       <<\h10AC0, \h10AC7>>, <<\h10AC9, \h10AE4>>, <<\h10B00, \h10B35>>, <<\h10B40, \h10B55>>,
       <<\h10B60, \h10B72>>, <<\h10B80, \h10B91>>, <<\h10C00, \h10C48>>, <<\h10C80, \h10CB2>>,
       <<\h10CC0, \h10CF2>>, <<\h10D00, \h10D23>>, <<\h10E80, \h10EA9>>, <<\h10EB0, \h10EB1>>,
       <<\h10F00, \h10F1C>>, <<\h10F27, \h10F27>>, <<\h10F30, \h10F45>>, <<\h10F70, \h10F81>>,
       <<\h10FB0, \h10FC4>>, <<\h10FE0, \h10FF6>>, <<\h11003, \h11037>>, <<\h11071, \h11072>>,
       <<\h11075, \h11075>>, <<\h11083, \h110AF>>, <<\h110D0, \h110E8>>, <<\h11103, \h11126>>,
       <<\h11144, \h11144>>, <<\h11147, \h11147>>, <<\h11150, \h11172>>, <<\h11176, \h11176>>,
       <<\h11183, \h111B2>>, <<\h111C1, \h111C4>>, <<\h111DA, \h111DA>>, <<\h111DC, \h111DC>>,
       <<\h11200, \h11211>>, <<\h11213, \h1122B>>, <<\h11280, \h11286>>, <<\h11288, \h11288>>,
       <<\h1128A, \h1128D>>, <<\h1128F, \h1129D>>, <<\h1129F, \h112A8>>, <<\h112B0, \h112DE>>,
       <<\h11305, \h1130C>>, <<\h1130F, \h11310>>, <<\h11313, \h11328>>, <<\h1132A, \h11330>>,
       <<\h11332, \h11333>>, <<\h11335, \h11339>>, <<\h1133D, \h1133D>>, <<\h11350, \h11350>>,
       <<\h1135D, \h11361>>, <<\h11400, \h11434>>, <<\h11447, \h1144A>>, <<\h1145F, \h11461>>,
       <<\h11480, \h114AF>>, <<\h114C4, \h114C5>>, <<\h114C7, \h114C7>>, <<\h11580, \h115AE>>,
       <<\h115D8, \h115DB>>, <<\h11600, \h1162F>>, <<\h11644, \h11644>>, <<\h11680, \h116AA>>,
       <<\h116B8, \h116B8>>, <<\h11700, \h1171A>>, <<\h11740, \h11746>>, <<\h11800, \h1182B>>,
       <<\h118A0, \h118DF>>, <<\h118FF, \h11906>>, <<\h11909, \h11909>>, <<\h1190C, \h11913>>,
       <<\h11915, \h11916>>, <<\h11918, \h1192F>>, <<\h1193F, \h1193F>>, <<\h11941, \h11941>>,
       <<\h119A0, \h119A7>>, <<\h119AA, \h119D0>>, <<\h119E1, \h119E1>>, <<\h119E3, \h119E3>>,
       <<\h11A00, \h11A00>>, <<\h11A0B, \h11A32>>, <<\h11A3A, \h11A3A>>, <<\h11A50, \h11A50>>,
       <<\h11A5C, \h11A89>>, <<\h11A9D, \h11A9D>>, <<\h11AB0, \h11AF8>>, <<\h11C00, \h11C08>>,
       <<\h11C0A, \h11C2E>>, <<\h11C40, \h11C40>>, <<\h11C72, \h11C8F>>, <<\h11D00, \h11D06>>,
       <<\h11D08, \h11D09>>, <<\h11D0B, \h11D30>>, <<\h11D46, \h11D46>>, <<\h11D60, \h11D65>>,
       <<\h11D67, \h11D68>>, <<\h11D6A, \h11D89>>, <<\h11D98, \h11D98>>, <<\h11EE0, \h11EF2>>,
       <<\h11FB0, \h11FB0>>, <<\h12000, \h12399>>, <<\h12480, \h12543>>, <<\h12F90, \h12FF0>>,
       <<\h13000, \h1342E>>, <<\h14400, \h14646>>, <<\h16800, \h16A38>>, <<\h16A40, \h16A5E>>,
       <<\h16A70, \h16ABE>>, <<\h16AD0, \h16AED>>, <<\h16B00, \h16B2F>>, <<\h16B40, \h16B43>>,
       <<\h16B63, \h16B77>>, <<\h16B7D, \h16B8F>>, <<\h16E40, \h16E7F>>, <<\h16F00, \h16F4A>>,
       <<\h16F50, \h16F50>>, <<\h16F93, \h16F9F>>, <<\h16FE0, \h16FE1>>, <<\h16FE3, \h16FE3>>,
       <<\h17000, \h187F7>>, <<\h18800, \h18CD5>>, <<\h18D00, \h18D08>>, <<\h1AFF0, \h1AFF3>>,
       <<\h1AFF5, \h1AFFB>>, <<\h1AFFD, \h1AFFE>>, <<\h1B000, \h1B122>>, <<\h1B150, \h1B152>>,
       <<\h1B164, \h1B167>>, <<\h1B170, \h1B2FB>>, <<\h1BC00, \h1BC6A>>, <<\h1BC70, \h1BC7C>>,
       <<\h1BC80, \h1BC88>>, <<\h1BC90, \h1BC99>>, <<\h1D400, \h1D454>>, <<\h1D456, \h1D49C>>,
       <<\h1D49E, \h1D49F>>, <<\h1D4A2, \h1D4A2>>, <<\h1D4A5, \h1D4A6>>, <<\h1D4A9, \h1D4AC>>,
       <<\h1D4AE, \h1D4B9>>, <<\h1D4BB, \h1D4BB>>, <<\h1D4BD, \h1D4C3>>, <<\h1D4C5, \h1D505>>,
       <<\h1D507, \h1D50A>>, <<\h1D50D, \h1D514>>, <<\h1D516, \h1D51C>>, <<\h1D51E, \h1D539>>,
       <<\h1D53B, \h1D53E>>, <<\h1D540, \h1D544>>, <<\h1D546, \h1D546>>, <<\h1D54A, \h1D550>>,
       <<\h1D552, \h1D6A5>>, <<\h1D6A8, \h1D6C0>>, <<\h1D6C2, \h1D6DA>>, <<\h1D6DC, \h1D6FA>>,
       <<\h1D6FC, \h1D714>>, <<\h1D716, \h1D734>>, <<\h1D736, \h1D74E>>, <<\h1D750, \h1D76E>>,
       <<\h1D770, \h1D788>>, <<\h1D78A, \h1D7A8>>, <<\h1D7AA, \h1D7C2>>, <<\h1D7C4, \h1D7CB>>,
       <<\h1DF00, \h1DF1E>>, <<\h1E100, \h1E12C>>, <<\h1E137, \h1E13D>>, <<\h1E14E, \h1E14E>>,
       <<\h1E290, \h1E2AD>>, <<\h1E2C0, \h1E2EB>>, <<\h1E7E0, \h1E7E6>>, <<\h1E7E8, \h1E7EB>>,
       <<\h1E7ED, \h1E7EE>>, <<\h1E7F0, \h1E7FE>>, <<\h1E800, \h1E8C4>>, <<\h1E900, \h1E943>>,
       <<\h1E94B, \h1E94B>>, <<\h1EE00, \h1EE03>>, <<\h1EE05, \h1EE1F>>, <<\h1EE21, \h1EE22>>,
       <<\h1EE24, \h1EE24>>, <<\h1EE27, \h1EE27>>, <<\h1EE29, \h1EE32>>, <<\h1EE34, \h1EE37>>,
       <<\h1EE39, \h1EE39>>, <<\h1EE3B, \h1EE3B>>, <<\h1EE42, \h1EE42>>, <<\h1EE47, \h1EE47>>,
       <<\h1EE49, \h1EE49>>, <<\h1EE4B, \h1EE4B>>, <<\h1EE4D, \h1EE4F>>, <<\h1EE51, \h1EE52>>,
       <<\h1EE54, \h1EE54>>, <<\h1EE57, \h1EE57>>, <<\h1EE59, \h1EE59>>, <<\h1EE5B, \h1EE5B>>,
       <<\h1EE5D, \h1EE5D>>, <<\h1EE5F, \h1EE5F>>, <<\h1EE61, \h1EE62>>, <<\h1EE64, \h1EE64>>,
       <<\h1EE67, \h1EE6A>>, <<\h1EE6C, \h1EE72>>, <<\h1EE74, \h1EE77>>, <<\h1EE79, \h1EE7C>>,
       <<\h1EE7E, \h1EE7E>>, <<\h1EE80, \h1EE89>>, <<\h1EE8B, \h1EE9B>>, <<\h1EEA1, \h1EEA3>>,
       <<\h1EEA5, \h1EEA9>>, <<\h1EEAB, \h1EEBB>>, <<\h20000, \h2A6DF>>, <<\h2A700, \h2B738>>,
       <<\h2B740, \h2B81D>>, <<\h2B820, \h2CEA1>>, <<\h2CEB0, \h2EBE0>>, <<\h2F800, \h2FA1D>>,
       <<\h30000, \h3134A>> >>

\* The letters: those of Latin-1 and those beyond.
Letters ==
    LowerLetters \cup UpperLetters \cup OtherLetters \cup Chars(AlphaRanges)

\* str.isalpha() on one character.
IsAlpha(c) == c \in Letters

\* The code points beyond U+00FF of the case-ignorable characters, which
\* str.lower() passes over when it looks at the neighbours of a capital
\* sigma.
CaseIgnorableRanges ==
    << <<\h02B0, \h036F>>, <<\h0374, \h0375>>, <<\h037A, \h037A>>, <<\h0384, \h0385>>,
       <<\h0387, \h0387>>, <<\h0483, \h0489>>, <<\h0559, \h0559>>, <<\h055F, \h055F>>,
       <<\h0591, \h05BD>>, <<\h05BF, \h05BF>>, <<\h05C1, \h05C2>>, <<\h05C4, \h05C5>>,
       <<\h05C7, \h05C7>>, <<\h05F4, \h05F4>>, <<\h0600, \h0605>>, <<\h0610, \h061A>>,
       <<\h061C, \h061C>>, <<\h0640, \h0640>>, <<\h064B, \h065F>>, <<\h0670, \h0670>>,
       <<\h06D6, \h06DD>>, <<\h06DF, \h06E8>>, <<\h06EA, \h06ED>>, <<\h070F, \h070F>>,
       <<\h0711, \h0711>>, <<\h0730, \h074A>>, <<\h07A6, \h07B0>>, <<\h07EB, \h07F5>>,
       <<\h07FA, \h07FA>>, <<\h07FD, \h07FD>>, <<\h0816, \h082D>>, <<\h0859, \h085B>>,
       <<\h0888, \h0888>>, <<\h0890, \h0891>>, <<\h0898, \h089F>>, <<\h08C9, \h0902>>,
       <<\h093A, \h093A>>, <<\h093C, \h093C>>, <<\h0941, \h0948>>, <<\h094D, \h094D>>,
       <<\h0951, \h0957>>, <<\h0962, \h0963>>, <<\h0971, \h0971>>, <<\h0981, \h0981>>,
       <<\h09BC, \h09BC>>, <<\h09C1, \h09C4>>, <<\h09CD, \h09CD>>, <<\h09E2, \h09E3>>,
       <<\h09FE, \h09FE>>, <<\h0A01, \h0A02>>, <<\h0A3C, \h0A3C>>, <<\h0A41, \h0A42>>,
       <<\h0A47, \h0A48>>, <<\h0A4B, \h0A4D>>, <<\h0A51, \h0A51>>, <<\h0A70, \h0A71>>,
       <<\h0A75, \h0A75>>, <<\h0A81, \h0A82>>, <<\h0ABC, \h0ABC>>, <<\h0AC1, \h0AC5>>,
       <<\h0AC7, \h0AC8>>, <<\h0ACD, \h0ACD>>, <<\h0AE2, \h0AE3>>, <<\h0AFA, \h0AFF>>,
       <<\h0B01, \h0B01>>, <<\h0B3C, \h0B3C>>, <<\h0B3F, \h0B3F>>, <<\h0B41, \h0B44>>,
       <<\h0B4D, \h0B4D>>, <<\h0B55, \h0B56>>, <<\h0B62, \h0B63>>, <<\h0B82, \h0B82>>,
       <<\h0BC0, \h0BC0>>, <<\h0BCD, \h0BCD>>, <<\h0C00, \h0C00>>, <<\h0C04, \h0C04>>,
       <<\h0C3C, \h0C3C>>, <<\h0C3E, \h0C40>>, <<\h0C46, \h0C48>>, <<\h0C4A, \h0C4D>>,
       <<\h0C55, \h0C56>>, <<\h0C62, \h0C63>>, <<\h0C81, \h0C81>>, <<\h0CBC, \h0CBC>>,
       <<\h0CBF, \h0CBF>>, <<\h0CC6, \h0CC6>>, <<\h0CCC, \h0CCD>>, <<\h0CE2, \h0CE3>>,
       <<\h0D00, \h0D01>>, <<\h0D3B, \h0D3C>>, <<\h0D41, \h0D44>>, <<\h0D4D, \h0D4D>>,
       <<\h0D62, \h0D63>>, <<\h0D81, \h0D81>>, <<\h0DCA, \h0DCA>>, <<\h0DD2, \h0DD4>>,
       <<\h0DD6, \h0DD6>>, <<\h0E31, \h0E31>>, <<\h0E34, \h0E3A>>, <<\h0E46, \h0E4E>>,
       <<\h0EB1, \h0EB1>>, <<\h0EB4, \h0EBC>>, <<\h0EC6, \h0EC6>>, <<\h0EC8, \h0ECD>>,
       <<\h0F18, \h0F19>>, <<\h0F35, \h0F35>>, <<\h0F37, \h0F37>>, <<\h0F39, \h0F39>>,
       <<\h0F71, \h0F7E>>, <<\h0F80, \h0F84>>, <<\h0F86, \h0F87>>, <<\h0F8D, \h0F97>>,
       <<\h0F99, \h0FBC>>, <<\h0FC6, \h0FC6>>, <<\h102D, \h1030>>, <<\h1032, \h1037>>,
       <<\h1039, \h103A>>, <<\h103D, \h103E>>, <<\h1058, \h1059>>, <<\h105E, \h1060>>,
       <<\h1071, \h1074>>, <<\h1082, \h1082>>, <<\h1085, \h1086>>, <<\h108D, \h108D>>,
       <<\h109D, \h109D>>, <<\h10FC, \h10FC>>, <<\h135D, \h135F>>, <<\h1712, \h1714>>,
       <<\h1732, \h1733>>, <<\h1752, \h1753>>, <<\h1772, \h1773>>, <<\h17B4, \h17B5>>,
       <<\h17B7, \h17BD>>, <<\h17C6, \h17C6>>, <<\h17C9, \h17D3>>, <<\h17D7, \h17D7>>,
       <<\h17DD, \h17DD>>, <<\h180B, \h180F>>, <<\h1843, \h1843>>, <<\h1885, \h1886>>,
       <<\h18A9, \h18A9>>, <<\h1920, \h1922>>, <<\h1927, \h1928>>, <<\h1932, \h1932>>,
       <<\h1939, \h193B>>, <<\h1A17, \h1A18>>, <<\h1A1B, \h1A1B>>, <<\h1A56, \h1A56>>,
       <<\h1A58, \h1A5E>>, <<\h1A60, \h1A60>>, <<\h1A62, \h1A62>>, <<\h1A65, \h1A6C>>,
       <<\h1A73, \h1A7C>>, <<\h1A7F, \h1A7F>>, <<\h1AA7, \h1AA7>>, <<\h1AB0, \h1ACE>>,
       <<\h1B00, \h1B03>>, <<\h1B34, \h1B34>>, <<\h1B36, \h1B3A>>, <<\h1B3C, \h1B3C>>,
       <<\h1B42, \h1B42>>, <<\h1B6B, \h1B73>>, <<\h1B80, \h1B81>>, <<\h1BA2, \h1BA5>>,
       <<\h1BA8, \h1BA9>>, <<\h1BAB, \h1BAD>>, <<\h1BE6, \h1BE6>>, <<\h1BE8, \h1BE9>>,
       <<\h1BED, \h1BED>>, <<\h1BEF, \h1BF1>>, <<\h1C2C, \h1C33>>, <<\h1C36, \h1C37>>,
       <<\h1C78, \h1C7D>>, <<\h1CD0, \h1CD2>>, <<\h1CD4, \h1CE0>>, <<\h1CE2, \h1CE8>>,
       <<\h1CED, \h1CED>>, <<\h1CF4, \h1CF4>>, <<\h1CF8, \h1CF9>>, <<\h1D2C, \h1D6A>>,
       <<\h1D78, \h1D78>>, <<\h1D9B, \h1DFF>>, <<\h1FBD, \h1FBD>>, <<\h1FBF, \h1FC1>>,
       <<\h1FCD, \h1FCF>>, <<\h1FDD, \h1FDF>>, <<\h1FED, \h1FEF>>, <<\h1FFD, \h1FFE>>,
       <<\h200B, \h200F>>, <<\h2018, \h2019>>, <<\h2024, \h2024>>, <<\h2027, \h2027>>,
       <<\h202A, \h202E>>, <<\h2060, \h2064>>, <<\h2066, \h206F>>, <<\h2071, \h2071>>,
       <<\h207F, \h207F>>, <<\h2090, \h209C>>, <<\h20D0, \h20F0>>, <<\h2C7C, \h2C7D>>,
       <<\h2CEF, \h2CF1>>, <<\h2D6F, \h2D6F>>, <<\h2D7F, \h2D7F>>, <<\h2DE0, \h2DFF>>,
       <<\h2E2F, \h2E2F>>, <<\h3005, \h3005>>, <<\h302A, \h302D>>, <<\h3031, \h3035>>,
       <<\h303B, \h303B>>, <<\h3099, \h309E>>, <<\h30FC, \h30FE>>, <<\hA015, \hA015>>,
       <<\hA4F8, \hA4FD>>, <<\hA60C, \hA60C>>, <<\hA66F, \hA672>>, <<\hA674, \hA67D>>,
       <<\hA67F, \hA67F>>, <<\hA69C, \hA69F>>, <<\hA6F0, \hA6F1>>, <<\hA700, \hA721>>,
       <<\hA770, \hA770>>, <<\hA788, \hA78A>>, <<\hA7F2, \hA7F4>>, <<\hA7F8, \hA7F9>>,
       <<\hA802, \hA802>>, <<\hA806, \hA806>>, <<\hA80B, \hA80B>>, <<\hA825, \hA826>>,
       <<\hA82C, \hA82C>>, <<\hA8C4, \hA8C5>>, <<\hA8E0, \hA8F1>>, <<\hA8FF, \hA8FF>>,
       <<\hA926, \hA92D>>, <<\hA947, \hA951>>, <<\hA980, \hA982>>, <<\hA9B3, \hA9B3>>,
       <<\hA9B6, \hA9B9>>, <<\hA9BC, \hA9BD>>, <<\hA9CF, \hA9CF>>, <<\hA9E5, \hA9E6>>,
       <<\hAA29, \hAA2E>>, <<\hAA31, \hAA32>>, <<\hAA35, \hAA36>>, <<\hAA43, \hAA43>>,
       <<\hAA4C, \hAA4C>>, <<\hAA70, \hAA70>>, <<\hAA7C, \hAA7C>>, <<\hAAB0, \hAAB0>>,
       <<\hAAB2, \hAAB4>>, <<\hAAB7, \hAAB8>>, <<\hAABE, \hAABF>>, <<\hAAC1, \hAAC1>>,
       <<\hAADD, \hAADD>>, <<\hAAEC, \hAAED>>, <<\hAAF3, \hAAF4>>, <<\hAAF6, \hAAF6>>,
       <<\hAB5B, \hAB5F>>, <<\hAB69, \hAB6B>>, <<\hABE5, \hABE5>>, <<\hABE8, \hABE8>>,
       <<\hABED, \hABED>>, <<\hFB1E, \hFB1E>>, <<\hFBB2, \hFBC2>>, <<\hFE00, \hFE0F>>,
       <<\hFE13, \hFE13>>, <<\hFE20, \hFE2F>>, <<\hFE52, \hFE52>>, <<\hFE55, \hFE55>>,
       <<\hFEFF, \hFEFF>>, <<\hFF07, \hFF07>>, <<\hFF0E, \hFF0E>>, <<\hFF1A, \hFF1A>>,
       <<\hFF3E, \hFF3E>>, <<\hFF40, \hFF40>>, <<\hFF70, \hFF70>>, <<\hFF9E, \hFF9F>>,
       <<\hFFE3, \hFFE3>>, <<\hFFF9, \hFFFB>>, <<\h101FD, \h101FD>>, <<\h102E0, \h102E0>>,
       <<\h10376, \h1037A>>, <<\h10780, \h10785>>, <<\h10787, \h107B0>>, <<\h107B2, \h107BA>>,
       <<\h10A01, \h10A03>>, <<\h10A05, \h10A06>>, <<\h10A0C, \h10A0F>>, <<\h10A38, \h10A3A>>,
       <<\h10A3F, \h10A3F>>, <<\h10AE5, \h10AE6>>, <<\h10D24, \h10D27>>, <<\h10EAB, \h10EAC>>,
       <<\h10F46, \h10F50>>, <<\h10F82, \h10F85>>, <<\h11001, \h11001>>, <<\h11038, \h11046>>,
       <<\h11070, \h11070>>, <<\h11073, \h11074>>, <<\h1107F, \h11081>>, <<\h110B3, \h110B6>>,
       <<\h110B9, \h110BA>>, <<\h110BD, \h110BD>>, <<\h110C2, \h110C2>>, <<\h110CD, \h110CD>>,
       <<\h11100, \h11102>>, <<\h11127, \h1112B>>, <<\h1112D, \h11134>>, <<\h11173, \h11173>>,
       <<\h11180, \h11181>>, <<\h111B6, \h111BE>>, <<\h111C9, \h111CC>>, <<\h111CF, \h111CF>>,
       <<\h1122F, \h11231>>, <<\h11234, \h11234>>, <<\h11236, \h11237>>, <<\h1123E, \h1123E>>,
       <<\h112DF, \h112DF>>, <<\h112E3, \h112EA>>, <<\h11300, \h11301>>, <<\h1133B, \h1133C>>,
       <<\h11340, \h11340>>, <<\h11366, \h1136C>>, <<\h11370, \h11374>>, <<\h11438, \h1143F>>,
       <<\h11442, \h11444>>, <<\h11446, \h11446>>, <<\h1145E, \h1145E>>, <<\h114B3, \h114B8>>,
       <<\h114BA, \h114BA>>, <<\h114BF, \h114C0>>, <<\h114C2, \h114C3>>, <<\h115B2, \h115B5>>,
       <<\h115BC, \h115BD>>, <<\h115BF, \h115C0>>, <<\h115DC, \h115DD>>, <<\h11633, \h1163A>>,
       <<\h1163D, \h1163D>>, <<\h1163F, \h11640>>, <<\h116AB, \h116AB>>, <<\h116AD, \h116AD>>,
       <<\h116B0, \h116B5>>, <<\h116B7, \h116B7>>, <<\h1171D, \h1171F>>, <<\h11722, \h11725>>,
       <<\h11727, \h1172B>>, <<\h1182F, \h11837>>, <<\h11839, \h1183A>>, <<\h1193B, \h1193C>>,
       <<\h1193E, \h1193E>>, <<\h11943, \h11943>>, <<\h119D4, \h119D7>>, <<\h119DA, \h119DB>>,
       <<\h119E0, \h119E0>>, <<\h11A01, \h11A0A>>, <<\h11A33, \h11A38>>, <<\h11A3B, \h11A3E>>,
       <<\h11A47, \h11A47>>, <<\h11A51, \h11A56>>, <<\h11A59, \h11A5B>>, <<\h11A8A, \h11A96>>,
       <<\h11A98, \h11A99>>, <<\h11C30, \h11C36>>, <<\h11C38, \h11C3D>>, <<\h11C3F, \h11C3F>>,
       <<\h11C92, \h11CA7>>, <<\h11CAA, \h11CB0>>, <<\h11CB2, \h11CB3>>, <<\h11CB5, \h11CB6>>,
       <<\h11D31, \h11D36>>, <<\h11D3A, \h11D3A>>, <<\h11D3C, \h11D3D>>, <<\h11D3F, \h11D45>>,
       <<\h11D47, \h11D47>>, <<\h11D90, \h11D91>>, <<\h11D95, \h11D95>>, <<\h11D97, \h11D97>>,
       <<\h11EF3, \h11EF4>>, <<\h13430, \h13438>>, <<\h16AF0, \h16AF4>>, <<\h16B30, \h16B36>>,
       <<\h16B40, \h16B43>>, <<\h16F4F, \h16F4F>>, <<\h16F8F, \h16F9F>>, <<\h16FE0, \h16FE1>>,
       <<\h16FE3, \h16FE4>>, <<\h1AFF0, \h1AFF3>>, <<\h1AFF5, \h1AFFB>>, <<\h1AFFD, \h1AFFE>>,
       <<\h1BC9D, \h1BC9E>>, <<\h1BCA0, \h1BCA3>>, <<\h1CF00, \h1CF2D>>, <<\h1CF30, \h1CF46>>,
       <<\h1D167, \h1D169>>, <<\h1D173, \h1D182>>, <<\h1D185, \h1D18B>>, <<\h1D1AA, \h1D1AD>>,
       <<\h1D242, \h1D244>>, <<\h1DA00, \h1DA36>>, <<\h1DA3B, \h1DA6C>>, <<\h1DA75, \h1DA75>>,
       <<\h1DA84, \h1DA84>>, <<\h1DA9B, \h1DA9F>>, <<\h1DAA1, \h1DAAF>>, <<\h1E000, \h1E006>>,
       <<\h1E008, \h1E018>>, <<\h1E01B, \h1E021>>, <<\h1E023, \h1E024>>, <<\h1E026, \h1E02A>>,
       <<\h1E130, \h1E13D>>, <<\h1E2AE, \h1E2AE>>, <<\h1E2EC, \h1E2EF>>, <<\h1E8D0, \h1E8D6>>,
       <<\h1E944, \h1E94B>>, <<\h1F3FB, \h1F3FF>>, <<\hE0001, \hE0001>>, <<\hE0020, \hE007F>>,
       <<\hE0100, \hE01EF>> >>
CaseIgnorable ==
    {"'", ".", ":", "^", "U+0060", "¨", "­", "¯", "´", "·", "¸"}
        \cup Chars(CaseIgnorableRanges)

\* The code points beyond U+00FF of the cased characters.
CasedRanges ==
    << <<\h0100, \h01BA>>, <<\h01BC, \h01BF>>, <<\h01C4, \h0293>>, <<\h0295, \h02B8>>,
       <<\h02C0, \h02C1>>, <<\h02E0, \h02E4>>, <<\h0345, \h0345>>, <<\h0370, \h0373>>,
       <<\h0376, \h0377>>, <<\h037A, \h037D>>, <<\h037F, \h037F>>, <<\h0386, \h0386>>,
       <<\h0388, \h038A>>, <<\h038C, \h038C>>, <<\h038E, \h03A1>>, <<\h03A3, \h03F5>>,
       <<\h03F7, \h0481>>, <<\h048A, \h052F>>, <<\h0531, \h0556>>, <<\h0560, \h0588>>,
       <<\h10A0, \h10C5>>, <<\h10C7, \h10C7>>, <<\h10CD, \h10CD>>, <<\h10D0, \h10FA>>,
       <<\h10FD, \h10FF>>, <<\h13A0, \h13F5>>, <<\h13F8, \h13FD>>, <<\h1C80, \h1C88>>,
       <<\h1C90, \h1CBA>>, <<\h1CBD, \h1CBF>>, <<\h1D00, \h1DBF>>, <<\h1E00, \h1F15>>,
       <<\h1F18, \h1F1D>>, <<\h1F20, \h1F45>>, <<\h1F48, \h1F4D>>, <<\h1F50, \h1F57>>,
       <<\h1F59, \h1F59>>, <<\h1F5B, \h1F5B>>, <<\h1F5D, \h1F5D>>, <<\h1F5F, \h1F7D>>,
       <<\h1F80, \h1FB4>>, <<\h1FB6, \h1FBC>>, <<\h1FBE, \h1FBE>>, <<\h1FC2, \h1FC4>>,
       <<\h1FC6, \h1FCC>>, <<\h1FD0, \h1FD3>>, <<\h1FD6, \h1FDB>>, <<\h1FE0, \h1FEC>>,
       <<\h1FF2, \h1FF4>>, <<\h1FF6, \h1FFC>>, <<\h2071, \h2071>>, <<\h207F, \h207F>>,
       <<\h2090, \h209C>>, <<\h2102, \h2102>>, <<\h2107, \h2107>>, <<\h210A, \h2113>>,
       <<\h2115, \h2115>>, <<\h2119, \h211D>>, <<\h2124, \h2124>>, <<\h2126, \h2126>>,
       <<\h2128, \h2128>>, <<\h212A, \h212D>>, <<\h212F, \h2134>>, <<\h2139, \h2139>>,
       <<\h213C, \h213F>>, <<\h2145, \h2149>>, <<\h214E, \h214E>>, <<\h2160, \h217F>>,
       <<\h2183, \h2184>>, <<\h24B6, \h24E9>>, <<\h2C00, \h2CE4>>, <<\h2CEB, \h2CEE>>,
       <<\h2CF2, \h2CF3>>, <<\h2D00, \h2D25>>, <<\h2D27, \h2D27>>, <<\h2D2D, \h2D2D>>,
       <<\hA640, \hA66D>>, <<\hA680, \hA69D>>, <<\hA722, \hA787>>, <<\hA78B, \hA78E>>,
       <<\hA790, \hA7CA>>, <<\hA7D0, \hA7D1>>, <<\hA7D3, \hA7D3>>, <<\hA7D5, \hA7D9>>,
       <<\hA7F5, \hA7F6>>, <<\hA7F8, \hA7FA>>, <<\hAB30, \hAB5A>>, <<\hAB5C, \hAB68>>,
       <<\hAB70, \hABBF>>, <<\hFB00, \hFB06>>, <<\hFB13, \hFB17>>, <<\hFF21, \hFF3A>>,
       <<\hFF41, \hFF5A>>, <<\h10400, \h1044F>>, <<\h104B0, \h104D3>>, <<\h104D8, \h104FB>>,
       <<\h10570, \h1057A>>, <<\h1057C, \h1058A>>, <<\h1058C, \h10592>>, <<\h10594, \h10595>>,
       <<\h10597, \h105A1>>, <<\h105A3, \h105B1>>, <<\h105B3, \h105B9>>, <<\h105BB, \h105BC>>,
       <<\h10780, \h10780>>, <<\h10783, \h10785>>, <<\h10787, \h107B0>>, <<\h107B2, \h107BA>>,
       <<\h10C80, \h10CB2>>, <<\h10CC0, \h10CF2>>, <<\h118A0, \h118DF>>, <<\h16E40, \h16E7F>>,
       <<\h1D400, \h1D454>>, <<\h1D456, \h1D49C>>, <<\h1D49E, \h1D49F>>, <<\h1D4A2, \h1D4A2>>,
       <<\h1D4A5, \h1D4A6>>, <<\h1D4A9, \h1D4AC>>, <<\h1D4AE, \h1D4B9>>, <<\h1D4BB, \h1D4BB>>,
       <<\h1D4BD, \h1D4C3>>, <<\h1D4C5, \h1D505>>, <<\h1D507, \h1D50A>>, <<\h1D50D, \h1D514>>,
       <<\h1D516, \h1D51C>>, <<\h1D51E, \h1D539>>, <<\h1D53B, \h1D53E>>, <<\h1D540, \h1D544>>,
       <<\h1D546, \h1D546>>, <<\h1D54A, \h1D550>>, <<\h1D552, \h1D6A5>>, <<\h1D6A8, \h1D6C0>>,
       <<\h1D6C2, \h1D6DA>>, <<\h1D6DC, \h1D6FA>>, <<\h1D6FC, \h1D714>>, <<\h1D716, \h1D734>>,
       <<\h1D736, \h1D74E>>, <<\h1D750, \h1D76E>>, <<\h1D770, \h1D788>>, <<\h1D78A, \h1D7A8>>,
       <<\h1D7AA, \h1D7C2>>, <<\h1D7C4, \h1D7CB>>, <<\h1DF00, \h1DF09>>, <<\h1DF0B, \h1DF1E>>,
       <<\h1E900, \h1E943>>, <<\h1F130, \h1F149>>, <<\h1F150, \h1F169>>, <<\h1F170, \h1F189>> >>
Cased ==
    LowerLetters \cup UpperLetters \cup OtherLetters \cup Chars(CasedRanges)

\* str.lower() takes the capital sigma s[i] to the final sigma: the nearest
\* character before it that is not case-ignorable is cased, and the nearest
\* such character after it, if there is one, is not.
FinalSigma(s, i) ==
    LET before == {j \in 1..(i - 1) : s[j] \notin CaseIgnorable}
        after  == {j \in (i + 1)..Len(s) : s[j] \notin CaseIgnorable}
    IN /\ before # {}
       /\ s[CHOOSE j \in before : \A k \in before : k <= j] \in Cased
       /\ \/ after = {}
          \/ s[CHOOSE j \in after : \A k \in after : j <= k] \notin Cased

\* str.lower() on a string.
LowerAt(s, i) ==
    IF s[i] = "U+03A3" /\ FinalSigma(s, i) THEN <<"U+03C2">>
    ELSE Lower(s[i])
RECURSIVE LowerFrom(_, _)
LowerFrom(s, i) ==
    IF i > Len(s) THEN <<>>
    ELSE LowerAt(s, i) \o LowerFrom(s, i + 1)
LowerSeq(s) == LowerFrom(s, 1)

\* A string as it stands in a set of strings: a one-character string is
\* its character, a longer one the characters' names joined.
RECURSIVE Str(_)
Str(s) ==
    IF s = <<>> THEN ""
    ELSE IF Len(s) = 1 THEN s[1]
    ELSE Head(s) \o Str(Tail(s))

\* a in b, for strings: a is a substring of b.
InStr(a, b) ==
    \E i \in 1..(Len(b) - Len(a) + 1) : SubSeq(b, i, i + Len(a) - 1) = a

\* str.replace(' ', '').
RECURSIVE RemoveSpaces(_)
RemoveSpaces(s) ==
    IF s = <<>> THEN <<>>
    ELSE IF Head(s) = " " THEN RemoveSpaces(Tail(s))
    ELSE <<Head(s)>> \o RemoveSpaces(Tail(s))

\* The characters str.strip() removes: space, \t, \n, \r, \f; the controls
\* U+000B, U+001C to U+001F and U+0085 and the no-break space U+00A0,
\* written as themselves; the white space beyond U+00FF.
Whitespace ==
    {" ", "\t", "\n", "\r", "\f", "", "", "", "", "", "", " ",
     "U+1680", "U+2000", "U+2001", "U+2002", "U+2003", "U+2004",
     "U+2005", "U+2006", "U+2007", "U+2008", "U+2009", "U+200A",
     "U+2028", "U+2029", "U+202F", "U+205F", "U+3000"}

\* str.strip() on a string.
RECURSIVE StripLeft(_)
StripLeft(s) ==
    IF s # <<>> /\ Head(s) \in Whitespace THEN StripLeft(Tail(s)) ELSE s

RECURSIVE StripRight(_)
StripRight(s) ==
    IF s # <<>> /\ s[Len(s)] \in Whitespace
    THEN StripRight(SubSeq(s, 1, Len(s) - 1)) ELSE s

Strip(s) == StripRight(StripLeft(s))

\* set(s): the characters of a string.
CharSet(s) == {s[i] : i \in 1..Len(s)}

Max(a, b) == IF a >= b THEN a ELSE b


(***************************************************************************)
(* The game state: engine.py's globals as one record, so that an operation *)
(* is a function from the state before to the state after.                 *)
(***************************************************************************)
\* engine.max_wrong_guesses, set by initialize_game from
\* ascii_art.get_max_wrong_guesses(): len(HANGMAN_STAGES) - 1.
HangmanStages == 7
\* The limit taken as the number of stages.
get_max_wrong_guesses_len == HangmanStages

get_max_wrong_guesses == HangmanStages - 1
max_wrong_guesses == get_max_wrong_guesses

Game ==
    [current_word     |-> current_word,
     current_category |-> current_category,
     guessed_letters  |-> guessed_letters,
     correct_letters  |-> correct_letters,
     wrong_letters    |-> wrong_letters,
     wrong_guesses    |-> wrong_guesses,
     game_won         |-> game_won,
     game_lost        |-> game_lost,
     guess_count      |-> guess_count,
     progress_trace   |-> progress_trace]

\* The globals after an operation that left them as g.
SetGame(g) ==
    /\ current_word' = g.current_word
    /\ current_category' = g.current_category
    /\ guessed_letters' = g.guessed_letters
    /\ correct_letters' = g.correct_letters
    /\ wrong_letters' = g.wrong_letters
    /\ wrong_guesses' = g.wrong_guesses
    /\ game_won' = g.game_won
    /\ game_lost' = g.game_lost
    /\ guess_count' = g.guess_count
    /\ progress_trace' = g.progress_trace

\* reset_game_state().
reset_game_state ==
    [current_word     |-> <<>>,
     current_category |-> <<>>,
     guessed_letters  |-> {},
     correct_letters  |-> {},
     wrong_letters    |-> {},
     wrong_guesses    |-> 0,
     game_won         |-> FALSE,
     game_lost        |-> FALSE,
     guess_count      |-> 0,
     progress_trace   |-> <<>>]

\* ' '.join(tokens).
RECURSIVE JoinSpaces(_)
JoinSpaces(tokens) ==
    IF tokens = <<>> THEN <<>>
    ELSE IF Len(tokens) = 1 THEN tokens
    ELSE <<Head(tokens), " ">> \o JoinSpaces(Tail(tokens))

\* ascii_art.get_hangman_stage(wrong_guesses): the index of the stage it
\* returns, or raised where it raises ValueError.
get_hangman_stage(wrong) ==
    [raised |-> ~(0 <= wrong /\ wrong <= 6),
     stage  |-> wrong]

\* display_game_state, as play_game calls it at the head of its loop: the
\* 'Remaining attempts' value it prints and the stage it asks for.
display_game_state(g) ==
    [remaining |-> max_wrong_guesses - g.wrong_guesses,
     art       |-> get_hangman_stage(g.wrong_guesses)]

\* The rendering that shows what is no letter (a space, a hyphen) from the
\* start.
get_word_progress_reveal(g) ==
    JoinSpaces([i \in 1..Len(g.current_word) |->
                   IF \/ g.current_word[i] \in g.correct_letters
                      \/ ~IsAlpha(g.current_word[i])
                   THEN g.current_word[i] ELSE "_"])

\* get_word_progress(): every character of the word, itself when it is in
\* correct_letters and '_' otherwise, joined by single spaces.
get_word_progress(g) ==
    JoinSpaces([i \in 1..Len(g.current_word) |->
                   IF g.current_word[i] \in g.correct_letters
                   THEN g.current_word[i] ELSE "_"])

\* is_word_complete(): set(current_word) <= correct_letters.
is_word_complete(g) == CharSet(g.current_word) \subseteq g.correct_letters

\* calculate_score without its floor of 10 points.
calculate_score_no_floor(g, word_length, wrong_guess_count) ==
    IF g.game_lost THEN 0
    ELSE word_length * 10 - wrong_guess_count * 5

\* calculate_score(word_length, wrong_guess_count); it reads the global
\* game_lost.
calculate_score(g, word_length, wrong_guess_count) ==
    IF g.game_lost THEN 0
    ELSE Max(word_length * 10 - wrong_guess_count * 5, 10)

\* The loss test with > for >=.
LoseConditionStrict(wrong) == wrong > max_wrong_guesses

\* The loss test of both guess operations: wrong_guesses >= max_wrong_guesses.
LoseCondition(wrong) == wrong >= max_wrong_guesses

\* The repeat test looking at the wrong letters only.
IsRepeatedWrongOnly(g, l) == l \in g.wrong_letters

\* The repeat test of process_letter_guess: letter in guessed_letters.
IsRepeated(g, l) == l \in g.guessed_letters

\* The entry of a wrong letter without its annotation.
WrongLetterEntryPlain(g, l) == get_word_progress(g)

\* process_letter_guess, lines 323-324: the trace entry of a wrong letter.
WrongLetterEntry(g, l) ==
    get_word_progress(g) \o <<" (">> \o l \o <<" wrong - no progress change)">>

\* process_letter_guess(letter), for a letter of one character: the state
\* after, and the value returned.  letter.lower() is one character but for
\* capital I with dot above.
\* A trace entry is the progress rendering followed by the annotation's
\* pieces; the code's annotation has an em dash (U+2014) where "-" stands.
process_letter_guess(g, letter) ==
    LET lowered == Lower(letter)
        l       == Str(lowered)
    IN
    IF IsRepeated(g, l)
    THEN [game |-> g, result |-> "repeated"]
    ELSE
      LET g1 == [g EXCEPT !.guessed_letters = @ \cup {l},
                          !.guess_count = @ + 1] IN
      IF InStr(lowered, g.current_word)
      THEN
        LET g2 == [g1 EXCEPT !.correct_letters = @ \cup {l}]
            g3 == [g2 EXCEPT !.progress_trace = Append(@, get_word_progress(g2))]
        IN [game |-> [g3 EXCEPT !.game_won = IF is_word_complete(g3) THEN TRUE ELSE @],
            result |-> "correct"]
      ELSE
        LET g2 == [g1 EXCEPT !.wrong_letters = @ \cup {l},
                             !.wrong_guesses = @ + 1]
            g3 == [g2 EXCEPT !.progress_trace = Append(@, WrongLetterEntry(g2, lowered))]
        IN [game |-> [g3 EXCEPT !.game_lost =
                         IF LoseCondition(g3.wrong_guesses) THEN TRUE ELSE @],
            result |-> "wrong"]

\* The letters a correct whole-word guess marks: the alphabetic characters
\* of the target.
WordLetters(word) == {c \in CharSet(word) : IsAlpha(c)}

\* guess.lower().replace(' ', '').
NormalizeGuess(guess) == RemoveSpaces(LowerSeq(guess))

\* The target compared as it stands, spaces kept.
NormalizeTargetKeepSpaces(word) == word

\* current_word.replace(' ', '').
NormalizeTarget(word) == RemoveSpaces(word)

\* The marking loop adding to correct_letters alone.
MarkWordLettersCorrectOnly(g) ==
    [g EXCEPT !.correct_letters = @ \cup WordLetters(g.current_word)]

\* The loop of a correct whole-word guess: every alphabetic character of
\* current_word goes into correct_letters and guessed_letters.
MarkWordLetters(g) ==
    [g EXCEPT !.correct_letters = @ \cup WordLetters(g.current_word),
              !.guessed_letters = @ \cup WordLetters(g.current_word)]

\* A wrong whole-word guess that costs no attempt.
WrongWordCountFree(g, gs) == g.wrong_guesses

\* A wrong whole-word guess charged one unit per character of the guess.
WrongWordCountPerLetter(g, gs) == g.wrong_guesses + Len(gs)

\* wrong_guesses after a wrong whole-word guess: wrong_guesses += 1.
WrongWordCount(g, gs) == g.wrong_guesses + 1

\* A whole-word guess left out of guess_count.
CountWordGuessNever(g) == g

\* process_word_guess, line 348: guess_count += 1, whatever the guess.
CountWordGuess(g) == [g EXCEPT !.guess_count = @ + 1]

\* process_word_guess(guess): the state after, and the value returned.
process_word_guess(g, guess) ==
    LET gs     == NormalizeGuess(guess)
        target == NormalizeTarget(g.current_word)
        g1     == CountWordGuess(g)
    IN
    IF gs = target
    THEN
      LET g2 == [MarkWordLetters(g1) EXCEPT !.game_won = TRUE]
      IN [game |-> [g2 EXCEPT !.progress_trace = Append(@, get_word_progress(g2))],
          result |-> "correct"]
    ELSE
      LET g2 == [g1 EXCEPT !.wrong_guesses = WrongWordCount(g1, gs)]
          g3 == [g2 EXCEPT !.progress_trace =
                    Append(@, get_word_progress(g2)
                              \o <<" (word '">> \o gs
                              \o <<"' wrong - no progress change)">>)]
      IN [game |-> [g3 EXCEPT !.game_lost =
                       IF LoseCondition(g3.wrong_guesses) THEN TRUE ELSE @],
          result |-> "wrong"]

(***************************************************************************)
(* The word source (game/wordlist.py).                                     *)
(***************************************************************************)
\* The keys of wordlist._categories, and the name determine_category gives
\* a word no category lists.
animals == <<"a", "n", "i", "m", "a", "l", "s">>
countries == <<"c", "o", "u", "n", "t", "r", "i", "e", "s">>
programming == <<"p", "r", "o", "g", "r", "a", "m", "m", "i", "n", "g">>
science == <<"s", "c", "i", "e", "n", "c", "e">>
mixed == <<"m", "i", "x", "e", "d">>

\* The keys of wordlist._categories, in the order load_words visits them.
CategoryOrder == <<animals, countries, programming, science>>

\* The words directory is a record: main is the set of at most one file
\* words.txt, a file being the sequence of its lines; readable says whether
\* open() succeeds on words.txt; categories maps each category whose file
\* exists in words/categories to that file's lines (as readlines() gives
\* them, less the newline that ends each).
\* [word.strip().lower() for word in f.readlines() if word.strip()].
LoadLines(lines) ==
    LET kept == SelectSeq(lines, LAMBDA l : Strip(l) # <<>>)
    IN [i \in 1..Len(kept) |-> LowerSeq(Strip(kept[i]))]

\* load_words(words_dir): the two globals it leaves, or raised where open()
\* raises.  A file that does not exist is skipped, and the global keeps what
\* it held before the call (the empty list and dictionary of the module at
\* main's call).
\* A dict is the sequence of its <<key, value>> pairs in the order the
\* keys were first set.
DictKeys(d) == [i \in 1..Len(d) |-> d[i][1]]
DictHas(d, k) == \E i \in 1..Len(d) : d[i][1] = k
DictGet(d, k) == d[CHOOSE i \in 1..Len(d) : d[i][1] = k][2]
\* d[k] = v: a key already there keeps its place.
DictSet(d, k, v) ==
    IF DictHas(d, k)
    THEN [i \in 1..Len(d) |-> IF d[i][1] = k THEN <<k, v>> ELSE d[i]]
    ELSE Append(d, <<k, v>>)

\* The loop of load_words over _categories, from its i-th key on: the
\* dict d with the words of every category file that exists.
RECURSIVE LoadCategories(_, _, _)
LoadCategories(d, files, i) ==
    IF i > Len(CategoryOrder) THEN d
    ELSE LET c == CategoryOrder[i] IN
         LoadCategories(IF c \in DOMAIN files
                        THEN DictSet(d, c, LoadLines(files[c])) ELSE d,
                        files, i + 1)

load_words(dir) ==
    IF dir.main # {} /\ ~dir.readable
    THEN [raised |-> TRUE, all_words |-> all_words,
          category_words |-> category_words]
    ELSE [raised |-> FALSE,
          all_words |-> IF dir.main = {} THEN all_words
                        ELSE LoadLines(CHOOSE f \in dir.main : TRUE),
          category_words |->
              LoadCategories(category_words, dir.categories, 1)]

\* initialize_game(project_root): load_words on the project's words
\* directory; whatever load_words raises passes through.
initialize_game(dir) == load_words(dir)

\* get_available_categories(): the keys of _category_words, in the order
\* of the dict.
get_available_categories == DictKeys(category_words)

\* determine_category(word): the first key of _category_words whose list
\* holds the word.
determine_category(word) ==
    LET hits == {i \in 1..Len(category_words) :
                    word \in CharSet(category_words[i][2])}
    IN IF hits = {} THEN mixed
       ELSE category_words[CHOOSE i \in hits : \A j \in hits : i <= j][1]

\* An Optional[str] category: None, or a name.
NoCategory == [none |-> TRUE, name |-> <<>>]
Category(name) == [none |-> FALSE, name |-> name]

\* get_random_word(category): the pairs (word, category) random.choice may
\* give; the empty set where the code raises ValueError.  A name is
\* lower-cased before it is looked up.
get_random_word(category) ==
    IF category.none
    THEN {<<w, determine_category(w)>> : w \in CharSet(all_words)}
    ELSE LET c == LowerSeq(category.name) IN
         IF ~DictHas(category_words, c) THEN {}
         ELSE {<<w, c>> : w \in CharSet(DictGet(category_words, c))}

(***************************************************************************)
(* The game log directories (engine.py).                                   *)
(***************************************************************************)
SetMax(S) == CHOOSE m \in S : \A n \in S : n <= m

\* The game directory left to be made when the transcript is written.
start_game_log_lazy(dirs, writable, game_number) ==
    [raised |-> ~writable, dirs |-> dirs]

\* start_game_log(game_number): game_log/game<N> made at once (mkdir with
\* parents and exist_ok); the directories there are afterwards, or raised
\* where mkdir raises PermissionError.  A directory that is there already
\* raises nothing (exist_ok), writable or not.
start_game_log(dirs, writable, game_number) ==
    [raised |-> ~writable /\ game_number \notin dirs,
     dirs   |-> IF writable THEN dirs \cup {game_number} ELSE dirs]

\* The next number taken from the count of the directories.
get_next_game_number_by_count == Cardinality(game_dirs) + 1

\* get_next_game_number(): max of the existing game<N> directories, 0 when
\* there is none, plus one.
get_next_game_number == IF game_dirs = {} THEN 1 ELSE SetMax(game_dirs) + 1

(***************************************************************************)
(* The statistics file (engine.py).  statistics.json is a record           *)
(* [kind, data]: kind says what opening and parsing the file gives, data   *)
(* is the parsed JSON object, a function from the keys present to their    *)
(* values, or what is known of a JSON value that is no object.  The two    *)
(* float fields are kept as exact fractions <<n, d>>.                      *)
(***************************************************************************)
StatsKeys ==
    {"games_played", "wins", "losses", "total_score", "win_rate",
     "average_score", "last_played"}

\* load_statistics's default_stats; 0.0 is <<0, 1>>.
default_stats ==
    [games_played  |-> 0,
     wins          |-> 0,
     losses        |-> 0,
     total_score   |-> 0,
     win_rate      |-> <<0, 1>>,
     average_score |-> <<0, 1>>,
     last_played   |-> None]

NoData == [k \in {} |-> 0]

\* statistics.json does not exist.
FileAbsent == [kind |-> "absent", data |-> NoData]
\* open() raises IOError (a directory of that name, no read permission).
FileUnreadable == [kind |-> "unreadable", data |-> NoData]
\* json.load raises JSONDecodeError.
FileMalformed == [kind |-> "malformed", data |-> NoData]
\* The bytes are not UTF-8: reading raises UnicodeDecodeError.
FileUndecodable == [kind |-> "undecodable", data |-> NoData]
\* Well-formed JSON that is no object.  type is what json.load gives for
\* it: "list", "str", "number", "bool" or "null"; names is the set of the
\* strings a list holds, or of the strings that occur in a str: what the
\* test `key not in loaded_stats` looks for.
FileNonObject(type, names) ==
    [kind |-> "nonobject", data |-> [type |-> type, names |-> names]]
\* A JSON object with the keys and values of data.  The values of the
\* counts are integers here: a count of another JSON type (a string, a
\* float) is outside the model.
FileObject(data) == [kind |-> "object", data |-> data]

\* load_statistics(): the value returned, or raised = TRUE where an
\* exception leaves the function; dict says whether the value returned is
\* a dictionary.  It catches JSONDecodeError and IOError.  A JSON object
\* keeps every key it has and gets the default for each key it lacks.  On
\* a value that is no object the backfilling loop raises TypeError: at the
\* test `key not in` on a number, a boolean or null, at the assignment on
\* a list or a str that lacks one of the keys; a list or str that holds
\* all seven passes the loop and is returned as it is.  On bytes that are
\* not UTF-8 the read raises UnicodeDecodeError.
load_statistics(file) ==
    IF file.kind = "object"
    THEN [raised |-> FALSE, dict |-> TRUE,
          stats  |-> [k \in DOMAIN file.data \cup StatsKeys |->
                        IF k \in DOMAIN file.data THEN file.data[k]
                        ELSE default_stats[k]]]
    ELSE IF file.kind = "nonobject"
    THEN IF file.data.type \in {"list", "str"}
            /\ StatsKeys \subseteq file.data.names
         THEN [raised |-> FALSE, dict |-> FALSE, stats |-> file.data]
         ELSE [raised |-> TRUE, dict |-> FALSE, stats |-> default_stats]
    ELSE IF file.kind = "undecodable"
    THEN [raised |-> TRUE, dict |-> TRUE, stats |-> default_stats]
    ELSE [raised |-> FALSE, dict |-> TRUE, stats |-> default_stats]

\* save_statistics with its IOError left uncaught.
save_statistics_raises(file, writable, s) ==
    [raised |-> ~writable,
     file   |-> IF writable /\ file.kind # "unreadable" THEN FileObject(s)
                ELSE file]

\* save_statistics(stats): the file after; an IOError is caught and the
\* file is left as it was.  A file that can be written and not read takes
\* the new contents and still cannot be read: writing changes no
\* permission.
save_statistics(file, writable, s) ==
    [raised |-> FALSE,
     file   |-> IF writable /\ file.kind # "unreadable" THEN FileObject(s)
                ELSE file]

\* The counting with a loss counted as a win as well.
CountOutcomeWinsAlways(s, won, sc) ==
    [s EXCEPT !.games_played = @ + 1,
              !.wins = @ + 1,
              !.losses = IF won THEN @ ELSE @ + 1,
              !.total_score = @ + sc]

\* update_statistics, lines 123-129: the four counts.
CountOutcome(s, won, sc) ==
    [s EXCEPT !.games_played = @ + 1,
              !.wins = IF won THEN @ + 1 ELSE @,
              !.losses = IF won THEN @ ELSE @ + 1,
              !.total_score = @ + sc]

\* update_statistics(won, score): the dictionary returned and the file
\* after, or raised = TRUE where an exception leaves the function (from
\* load_statistics, TypeError at stats['games_played'] += 1 when the value
\* loaded is a list or a str, or ZeroDivisionError when games_played comes
\* to 0).  datetime.now().isoformat() is "now".
update_statistics(file, writable, won, sc) ==
    LET loaded == load_statistics(file) IN
    IF loaded.raised \/ ~loaded.dict
    THEN [raised |-> TRUE, stats |-> loaded.stats, file |-> file]
    ELSE
      LET s1 == CountOutcome(loaded.stats, won, sc) IN
      IF s1.games_played = 0
      THEN [raised |-> TRUE, stats |-> s1, file |-> file]
      ELSE
        LET s2 == [s1 EXCEPT !.win_rate = <<s1.wins * 100, s1.games_played>>,
                             !.average_score = <<s1.total_score, s1.games_played>>,
                             !.last_played = "now"]
            saved == save_statistics(file, writable, s2)
        IN [raised |-> saved.raised, stats |-> s2, file |-> saved.file]

(***************************************************************************)
(* The game transcripts (engine.py).                                       *)
(***************************************************************************)
\* The characters beyond U+00FF that have a title case of one character
\* beyond U+00FF other than themselves, in rows <<first, last, step, d>> as
\* in LowerRuns.
TitleRuns ==
    << <<\h0101, \h012F, 2, -1>>, <<\h0133, \h0137, 2, -1>>, <<\h013A, \h0148, 2, -1>>,
       <<\h014B, \h0177, 2, -1>>, <<\h017A, \h017E, 2, -1>>, <<\h0180, \h0180, 1, 195>>,
       <<\h0183, \h0185, 2, -1>>, <<\h0188, \h0188, 1, -1>>, <<\h018C, \h018C, 1, -1>>,
       <<\h0192, \h0192, 1, -1>>, <<\h0195, \h0195, 1, 97>>, <<\h0199, \h0199, 1, -1>>,
       <<\h019A, \h019A, 1, 163>>, <<\h019E, \h019E, 1, 130>>, <<\h01A1, \h01A5, 2, -1>>,
       <<\h01A8, \h01A8, 1, -1>>, <<\h01AD, \h01AD, 1, -1>>, <<\h01B0, \h01B0, 1, -1>>,
       <<\h01B4, \h01B6, 2, -1>>, <<\h01B9, \h01B9, 1, -1>>, <<\h01BD, \h01BD, 1, -1>>,
       <<\h01BF, \h01BF, 1, 56>>, <<\h01C4, \h01C4, 1, 1>>, <<\h01C6, \h01C6, 1, -1>>,
       <<\h01C7, \h01C7, 1, 1>>, <<\h01C9, \h01C9, 1, -1>>, <<\h01CA, \h01CA, 1, 1>>,
       <<\h01CC, \h01DC, 2, -1>>, <<\h01DD, \h01DD, 1, -79>>, <<\h01DF, \h01EF, 2, -1>>,
       <<\h01F1, \h01F1, 1, 1>>, <<\h01F3, \h01F5, 2, -1>>, <<\h01F9, \h021F, 2, -1>>,
       <<\h0223, \h0233, 2, -1>>, <<\h023C, \h023C, 1, -1>>, <<\h023F, \h0240, 1, 10815>>,
       <<\h0242, \h0242, 1, -1>>, <<\h0247, \h024F, 2, -1>>, <<\h0250, \h0250, 1, 10783>>,
       <<\h0251, \h0251, 1, 10780>>, <<\h0252, \h0252, 1, 10782>>, <<\h0253, \h0253, 1, -210>>,
       <<\h0254, \h0254, 1, -206>>, <<\h0256, \h0257, 1, -205>>, <<\h0259, \h0259, 1, -202>>,
       <<\h025B, \h025B, 1, -203>>, <<\h025C, \h025C, 1, 42319>>, <<\h0260, \h0260, 1, -205>>,
       <<\h0261, \h0261, 1, 42315>>, <<\h0263, \h0263, 1, -207>>, <<\h0265, \h0265, 1, 42280>>,
       <<\h0266, \h0266, 1, 42308>>, <<\h0268, \h0268, 1, -209>>, <<\h0269, \h0269, 1, -211>>,
       <<\h026A, \h026A, 1, 42308>>, <<\h026B, \h026B, 1, 10743>>, <<\h026C, \h026C, 1, 42305>>,
       <<\h026F, \h026F, 1, -211>>, <<\h0271, \h0271, 1, 10749>>, <<\h0272, \h0272, 1, -213>>,
       <<\h0275, \h0275, 1, -214>>, <<\h027D, \h027D, 1, 10727>>, <<\h0280, \h0280, 1, -218>>,
       <<\h0282, \h0282, 1, 42307>>, <<\h0283, \h0283, 1, -218>>, <<\h0287, \h0287, 1, 42282>>,
       <<\h0288, \h0288, 1, -218>>, <<\h0289, \h0289, 1, -69>>, <<\h028A, \h028B, 1, -217>>,
       <<\h028C, \h028C, 1, -71>>, <<\h0292, \h0292, 1, -219>>, <<\h029D, \h029D, 1, 42261>>,
       <<\h029E, \h029E, 1, 42258>>, <<\h0345, \h0345, 1, 84>>, <<\h0371, \h0373, 2, -1>>,
       <<\h0377, \h0377, 1, -1>>, <<\h037B, \h037D, 1, 130>>, <<\h03AC, \h03AC, 1, -38>>,
       <<\h03AD, \h03AF, 1, -37>>, <<\h03B1, \h03C1, 1, -32>>, <<\h03C2, \h03C2, 1, -31>>,
       <<\h03C3, \h03CB, 1, -32>>, <<\h03CC, \h03CC, 1, -64>>, <<\h03CD, \h03CE, 1, -63>>,
       <<\h03D0, \h03D0, 1, -62>>, <<\h03D1, \h03D1, 1, -57>>, <<\h03D5, \h03D5, 1, -47>>,
       <<\h03D6, \h03D6, 1, -54>>, <<\h03D7, \h03D7, 1, -8>>, <<\h03D9, \h03EF, 2, -1>>,
       <<\h03F0, \h03F0, 1, -86>>, <<\h03F1, \h03F1, 1, -80>>, <<\h03F2, \h03F2, 1, 7>>,
       <<\h03F3, \h03F3, 1, -116>>, <<\h03F5, \h03F5, 1, -96>>, <<\h03F8, \h03F8, 1, -1>>,
       <<\h03FB, \h03FB, 1, -1>>, <<\h0430, \h044F, 1, -32>>, <<\h0450, \h045F, 1, -80>>,
       <<\h0461, \h0481, 2, -1>>, <<\h048B, \h04BF, 2, -1>>, <<\h04C2, \h04CE, 2, -1>>,
       <<\h04CF, \h04CF, 1, -15>>, <<\h04D1, \h052F, 2, -1>>, <<\h0561, \h0586, 1, -48>>,
       <<\h13F8, \h13FD, 1, -8>>, <<\h1C80, \h1C80, 1, -6254>>, <<\h1C81, \h1C81, 1, -6253>>,
       <<\h1C82, \h1C82, 1, -6244>>, <<\h1C83, \h1C84, 1, -6242>>, <<\h1C85, \h1C85, 1, -6243>>,
       <<\h1C86, \h1C86, 1, -6236>>, <<\h1C87, \h1C87, 1, -6181>>, <<\h1C88, \h1C88, 1, 35266>>,
       <<\h1D79, \h1D79, 1, 35332>>, <<\h1D7D, \h1D7D, 1, 3814>>, <<\h1D8E, \h1D8E, 1, 35384>>,
       <<\h1E01, \h1E95, 2, -1>>, <<\h1E9B, \h1E9B, 1, -59>>, <<\h1EA1, \h1EFF, 2, -1>>,
       <<\h1F00, \h1F07, 1, 8>>, <<\h1F10, \h1F15, 1, 8>>, <<\h1F20, \h1F27, 1, 8>>,
       <<\h1F30, \h1F37, 1, 8>>, <<\h1F40, \h1F45, 1, 8>>, <<\h1F51, \h1F57, 2, 8>>,
       <<\h1F60, \h1F67, 1, 8>>, <<\h1F70, \h1F71, 1, 74>>, <<\h1F72, \h1F75, 1, 86>>,
       <<\h1F76, \h1F77, 1, 100>>, <<\h1F78, \h1F79, 1, 128>>, <<\h1F7A, \h1F7B, 1, 112>>,
       <<\h1F7C, \h1F7D, 1, 126>>, <<\h1F80, \h1F87, 1, 8>>, <<\h1F90, \h1F97, 1, 8>>,
       <<\h1FA0, \h1FA7, 1, 8>>, <<\h1FB0, \h1FB1, 1, 8>>, <<\h1FB3, \h1FB3, 1, 9>>,
       <<\h1FBE, \h1FBE, 1, -7205>>, <<\h1FC3, \h1FC3, 1, 9>>, <<\h1FD0, \h1FD1, 1, 8>>,
       <<\h1FE0, \h1FE1, 1, 8>>, <<\h1FE5, \h1FE5, 1, 7>>, <<\h1FF3, \h1FF3, 1, 9>>,
       <<\h214E, \h214E, 1, -28>>, <<\h2170, \h217F, 1, -16>>, <<\h2184, \h2184, 1, -1>>,
       <<\h24D0, \h24E9, 1, -26>>, <<\h2C30, \h2C5F, 1, -48>>, <<\h2C61, \h2C61, 1, -1>>,
       <<\h2C65, \h2C65, 1, -10795>>, <<\h2C66, \h2C66, 1, -10792>>, <<\h2C68, \h2C6C, 2, -1>>,
       <<\h2C73, \h2C73, 1, -1>>, <<\h2C76, \h2C76, 1, -1>>, <<\h2C81, \h2CE3, 2, -1>>,
       <<\h2CEC, \h2CEE, 2, -1>>, <<\h2CF3, \h2CF3, 1, -1>>, <<\h2D00, \h2D25, 1, -7264>>,
       <<\h2D27, \h2D27, 1, -7264>>, <<\h2D2D, \h2D2D, 1, -7264>>, <<\hA641, \hA66D, 2, -1>>,
       <<\hA681, \hA69B, 2, -1>>, <<\hA723, \hA72F, 2, -1>>, <<\hA733, \hA76F, 2, -1>>,
       <<\hA77A, \hA77C, 2, -1>>, <<\hA77F, \hA787, 2, -1>>, <<\hA78C, \hA78C, 1, -1>>,
       <<\hA791, \hA793, 2, -1>>, <<\hA794, \hA794, 1, 48>>, <<\hA797, \hA7A9, 2, -1>>,
       <<\hA7B5, \hA7C3, 2, -1>>, <<\hA7C8, \hA7CA, 2, -1>>, <<\hA7D1, \hA7D1, 1, -1>>,
       <<\hA7D7, \hA7D9, 2, -1>>, <<\hA7F6, \hA7F6, 1, -1>>, <<\hAB53, \hAB53, 1, -928>>,
       <<\hAB70, \hABBF, 1, -38864>>, <<\hFF41, \hFF5A, 1, -32>>, <<\h10428, \h1044F, 1, -40>>,
       <<\h104D8, \h104FB, 1, -40>>, <<\h10597, \h105A1, 1, -39>>, <<\h105A3, \h105B1, 1, -39>>,
       <<\h105B3, \h105B9, 1, -39>>, <<\h105BB, \h105BC, 1, -39>>, <<\h10CC0, \h10CF2, 1, -64>>,
       <<\h118C0, \h118DF, 1, -32>>, <<\h16E60, \h16E7F, 1, -32>>, <<\h1E922, \h1E943, 1, -34>> >>
\* The pairs <<character, title case of it>> of TitleRuns, and of the
\* characters beyond U+00FF whose title case is in Latin-1 or is more than
\* one character.
TitlePairs ==
    UNION {{<<Chr(n), <<Chr(n + TitleRuns[r][4])>>>> :
              n \in {m \in TitleRuns[r][1]..TitleRuns[r][2] :
                        (m - TitleRuns[r][1]) % TitleRuns[r][3] = 0}} :
           r \in DOMAIN TitleRuns}
    \cup {
          <<"U+0131", <<"I">>>>, <<"U+0149", <<"U+02BC", "N">>>>,
          <<"U+017F", <<"S">>>>, <<"U+01F0", <<"J", "U+030C">>>>,
          <<"U+0390", <<"U+0399", "U+0308", "U+0301">>>>, <<"U+03B0", <<"U+03A5", "U+0308", "U+0301">>>>,
          <<"U+0587", <<"U+0535", "U+0582">>>>, <<"U+1E96", <<"H", "U+0331">>>>,
          <<"U+1E97", <<"T", "U+0308">>>>, <<"U+1E98", <<"W", "U+030A">>>>,
          <<"U+1E99", <<"Y", "U+030A">>>>, <<"U+1E9A", <<"A", "U+02BE">>>>,
          <<"U+1F50", <<"U+03A5", "U+0313">>>>, <<"U+1F52", <<"U+03A5", "U+0313", "U+0300">>>>,
          <<"U+1F54", <<"U+03A5", "U+0313", "U+0301">>>>, <<"U+1F56", <<"U+03A5", "U+0313", "U+0342">>>>,
          <<"U+1FB2", <<"U+1FBA", "U+0345">>>>, <<"U+1FB4", <<"U+0386", "U+0345">>>>,
          <<"U+1FB6", <<"U+0391", "U+0342">>>>, <<"U+1FB7", <<"U+0391", "U+0342", "U+0345">>>>,
          <<"U+1FC2", <<"U+1FCA", "U+0345">>>>, <<"U+1FC4", <<"U+0389", "U+0345">>>>,
          <<"U+1FC6", <<"U+0397", "U+0342">>>>, <<"U+1FC7", <<"U+0397", "U+0342", "U+0345">>>>,
          <<"U+1FD2", <<"U+0399", "U+0308", "U+0300">>>>, <<"U+1FD3", <<"U+0399", "U+0308", "U+0301">>>>,
          <<"U+1FD6", <<"U+0399", "U+0342">>>>, <<"U+1FD7", <<"U+0399", "U+0308", "U+0342">>>>,
          <<"U+1FE2", <<"U+03A5", "U+0308", "U+0300">>>>, <<"U+1FE3", <<"U+03A5", "U+0308", "U+0301">>>>,
          <<"U+1FE4", <<"U+03A1", "U+0313">>>>, <<"U+1FE6", <<"U+03A5", "U+0342">>>>,
          <<"U+1FE7", <<"U+03A5", "U+0308", "U+0342">>>>, <<"U+1FF2", <<"U+1FFA", "U+0345">>>>,
          <<"U+1FF4", <<"U+038F", "U+0345">>>>, <<"U+1FF6", <<"U+03A9", "U+0342">>>>,
          <<"U+1FF7", <<"U+03A9", "U+0342", "U+0345">>>>, <<"U+FB00", <<"F", "f">>>>,
          <<"U+FB01", <<"F", "i">>>>, <<"U+FB02", <<"F", "l">>>>,
          <<"U+FB03", <<"F", "f", "i">>>>, <<"U+FB04", <<"F", "f", "l">>>>,
          <<"U+FB05", <<"S", "t">>>>, <<"U+FB06", <<"S", "t">>>>,
          <<"U+FB13", <<"U+0544", "U+0576">>>>, <<"U+FB14", <<"U+0544", "U+0565">>>>,
          <<"U+FB15", <<"U+0544", "U+056B">>>>, <<"U+FB16", <<"U+054E", "U+0576">>>>,
          <<"U+FB17", <<"U+0544", "U+056D">>>> }
TitledBeyond == {p[1] : p \in TitlePairs}
TitleBeyond ==
    [c \in TitledBeyond |-> (CHOOSE p \in TitlePairs : p[1] = c)[2]]

\* The title case of one character: its capital, for most; sharp s gives
\* 'Ss', y with diaeresis and the micro sign give capitals beyond U+00FF.
TitleChar(c) ==
    IF c = "ß" THEN <<"S", "s">>
    ELSE IF c = "ÿ" THEN <<"U+0178">>
    ELSE IF c = "µ" THEN <<"U+039C">>
    ELSE IF c \in TitledBeyond THEN TitleBeyond[c]
    ELSE <<Upper(c)>>

\* str.title(): a character that follows a cased character is lower-cased,
\* any other is put in title case.
RECURSIVE TitleFrom(_, _)
TitleFrom(s, i) ==
    IF i > Len(s) THEN <<>>
    ELSE (IF i > 1 /\ s[i - 1] \in Cased THEN LowerAt(s, i)
          ELSE TitleChar(s[i])) \o TitleFrom(s, i + 1)

Title(s) == TitleFrom(s, 1)

\* save_game_log(game_number, won, score, stats): the values the lines of
\* log.txt are formatted from.  The date, the guesses list, the wrong
\* letters list and the progress trace lines are not kept here.
LogEntries(g, game_number, won, sc, st) ==
    [game          |-> game_number,
     category      |-> IF g.current_category # <<>>
                       THEN Title(g.current_category)
                       ELSE <<"M", "i", "x", "e", "d">>,
     word          |-> g.current_word,
     word_length   |-> Len(g.current_word),
     wrong_count   |-> g.wrong_guesses,
     remaining     |-> max_wrong_guesses - g.wrong_guesses,
     result        |-> IF won THEN "Win" ELSE "Loss",
     points        |-> sc,
     total_score   |-> st.total_score,
     games_played  |-> st.games_played,
     wins          |-> st.wins,
     losses        |-> st.losses,
     win_rate      |-> st.win_rate]

\* save_game_log: the transcripts after.  open(log_file, 'w') needs the
\* game's directory; without it the IOError is caught and nothing is written.
save_game_log(files, dirs, g, game_number, won, sc, st) ==
    IF game_number \notin dirs THEN files
    ELSE [n \in DOMAIN files \cup {game_number} |->
            IF n = game_number THEN LogEntries(g, game_number, won, sc, st)
            ELSE files[n]]

\* The orders in which a for loop may visit a set of strings: Python fixes
\* none, the order follows the strings' hashes, which change from process
\* to process.
IterationOrders(S) ==
    {order \in [1..Cardinality(S) -> S] :
        \A i, j \in 1..Cardinality(S) : order[i] = order[j] => i = j}

\* save_game_log, lines 194-201: the entries under 'Guesses (in order):',
\* one per letter that `for letter in guessed_letters` visits, numbered from
\* 1 and marked Correct or Wrong; the set of the lists the loop may write.
save_game_log_guesses(g) ==
    {[i \in 1..Len(order) |->
         [number |-> i,
          letter |-> order[i],
          note   |-> IF order[i] \in g.correct_letters
                     THEN "Correct" ELSE "Wrong"]] :
       order \in IterationOrders(g.guessed_letters)}

(***************************************************************************)
(* The input gate (ui/display.py).                                         *)
(***************************************************************************)
\* What input() gives at a prompt: the line typed, a sequence of
\* characters, or the exception it raises (EOFError at the end of the
\* input, KeyboardInterrupt on Ctrl-C).
Typed(line) == [raised |-> "none", line |-> line]
InputEOF == [raised |-> "EOFError", line |-> <<>>]
InputInterrupt == [raised |-> "KeyboardInterrupt", line |-> <<>>]
Lines(S) == {Typed(line) : line \in S}

\* input(...).strip().lower().
StrLower(s) == LowerSeq(Strip(s))

\* ['quit', 'q', 'exit'].
QuitWordSeqs == {<<"q", "u", "i", "t">>, <<"q">>, <<"e", "x", "i", "t">>}

\* get_user_guess(), one pass of its loop on what input() gives: 'quit'
\* (also where input() raises), 'guess', a single lower-case letter, or
\* "reprompt" when the loop goes round again.
get_user_guess(raw) ==
    IF raw.raised # "none" THEN "quit"
    ELSE LET guess == StrLower(raw.line) IN
         IF guess \in QuitWordSeqs THEN "quit"
         ELSE IF guess = <<"g", "u", "e", "s", "s">> THEN "guess"
         ELSE IF Len(guess) = 1 /\ IsAlpha(guess[1]) THEN guess[1]
         ELSE "reprompt"

\* What the player may type at the whole-word prompt.
WordInputs ==
    Lines({
      <<"a", "b", "a">>, <<"A", "b", "A">>, <<"a", "b", " ", "a">>,
      <<" ", "a", "b", "a", " ">>, <<"b", "a">>, <<"a", "-", "b">>, <<>>,
      <<"q">>, <<"Q", "u", "i", "t">>, <<" ">>, <<"a", "\t", "b">> })
        \cup {InputEOF, InputInterrupt}

\* get_full_word_guess(), one pass of its loop on what input() gives.
get_full_word_guess(raw) ==
    IF raw.raised # "none" THEN [kind |-> "quit", word |-> <<>>]
    ELSE LET guess == StrLower(raw.line) IN
         IF guess \in QuitWordSeqs THEN [kind |-> "quit", word |-> <<>>]
         ELSE IF /\ guess # <<>>
                 /\ RemoveSpaces(guess) # <<>>
                 /\ \A c \in CharSet(RemoveSpaces(guess)) : IsAlpha(c)
              THEN [kind |-> "word", word |-> guess]
         ELSE [kind |-> "reprompt", word |-> <<>>]

\* What the player may type at the category prompt.
CategoryInputs ==
    Lines({
      <<"1">>, <<"2">>, <<"3">>, <<"4">>, <<"0">>, <<"-", "1">>,
      <<" ", "1">>, <<"A", "n", "i", "m", "a", "l", "s">>,
      <<"s", "c", "i", "e", "n", "c", "e">>, <<"A", "L", "L">>,
      <<"Q", "u", "i", "t">>, <<"z", "z", "z">> })
        \cup {InputEOF, InputInterrupt}

\* The decimal digits int() takes: the ASCII digits, then those of the
\* other scripts (the characters of Unicode's category Nd), one script to a
\* row; a digit stands for its place in its row less one.
DigitChars ==
    << <<"0", "1", "2", "3", "4", "5", "6", "7", "8", "9">>,
       <<"U+0660", "U+0661", "U+0662", "U+0663", "U+0664",
         "U+0665", "U+0666", "U+0667", "U+0668", "U+0669">>,
       <<"U+06F0", "U+06F1", "U+06F2", "U+06F3", "U+06F4",
         "U+06F5", "U+06F6", "U+06F7", "U+06F8", "U+06F9">>,
       <<"U+07C0", "U+07C1", "U+07C2", "U+07C3", "U+07C4",
         "U+07C5", "U+07C6", "U+07C7", "U+07C8", "U+07C9">>,
       <<"U+0966", "U+0967", "U+0968", "U+0969", "U+096A",
         "U+096B", "U+096C", "U+096D", "U+096E", "U+096F">>,
       <<"U+09E6", "U+09E7", "U+09E8", "U+09E9", "U+09EA",
         "U+09EB", "U+09EC", "U+09ED", "U+09EE", "U+09EF">>,
       <<"U+0A66", "U+0A67", "U+0A68", "U+0A69", "U+0A6A",
         "U+0A6B", "U+0A6C", "U+0A6D", "U+0A6E", "U+0A6F">>,
       <<"U+0AE6", "U+0AE7", "U+0AE8", "U+0AE9", "U+0AEA",
         "U+0AEB", "U+0AEC", "U+0AED", "U+0AEE", "U+0AEF">>,
       <<"U+0B66", "U+0B67", "U+0B68", "U+0B69", "U+0B6A",
         "U+0B6B", "U+0B6C", "U+0B6D", "U+0B6E", "U+0B6F">>,
       <<"U+0BE6", "U+0BE7", "U+0BE8", "U+0BE9", "U+0BEA",
         "U+0BEB", "U+0BEC", "U+0BED", "U+0BEE", "U+0BEF">>,
       <<"U+0C66", "U+0C67", "U+0C68", "U+0C69", "U+0C6A",
         "U+0C6B", "U+0C6C", "U+0C6D", "U+0C6E", "U+0C6F">>,
       <<"U+0CE6", "U+0CE7", "U+0CE8", "U+0CE9", "U+0CEA",
         "U+0CEB", "U+0CEC", "U+0CED", "U+0CEE", "U+0CEF">>,
       <<"U+0D66", "U+0D67", "U+0D68", "U+0D69", "U+0D6A",
         "U+0D6B", "U+0D6C", "U+0D6D", "U+0D6E", "U+0D6F">>,
       <<"U+0DE6", "U+0DE7", "U+0DE8", "U+0DE9", "U+0DEA",
         "U+0DEB", "U+0DEC", "U+0DED", "U+0DEE", "U+0DEF">>,
       <<"U+0E50", "U+0E51", "U+0E52", "U+0E53", "U+0E54",
         "U+0E55", "U+0E56", "U+0E57", "U+0E58", "U+0E59">>,
       <<"U+0ED0", "U+0ED1", "U+0ED2", "U+0ED3", "U+0ED4",
         "U+0ED5", "U+0ED6", "U+0ED7", "U+0ED8", "U+0ED9">>,
       <<"U+0F20", "U+0F21", "U+0F22", "U+0F23", "U+0F24",
         "U+0F25", "U+0F26", "U+0F27", "U+0F28", "U+0F29">>,
       <<"U+1040", "U+1041", "U+1042", "U+1043", "U+1044",
         "U+1045", "U+1046", "U+1047", "U+1048", "U+1049">>,
       <<"U+1090", "U+1091", "U+1092", "U+1093", "U+1094",
         "U+1095", "U+1096", "U+1097", "U+1098", "U+1099">>,
       <<"U+17E0", "U+17E1", "U+17E2", "U+17E3", "U+17E4",
         "U+17E5", "U+17E6", "U+17E7", "U+17E8", "U+17E9">>,
       <<"U+1810", "U+1811", "U+1812", "U+1813", "U+1814",
         "U+1815", "U+1816", "U+1817", "U+1818", "U+1819">>,
       <<"U+1946", "U+1947", "U+1948", "U+1949", "U+194A",
         "U+194B", "U+194C", "U+194D", "U+194E", "U+194F">>,
       <<"U+19D0", "U+19D1", "U+19D2", "U+19D3", "U+19D4",
         "U+19D5", "U+19D6", "U+19D7", "U+19D8", "U+19D9">>,
       <<"U+1A80", "U+1A81", "U+1A82", "U+1A83", "U+1A84",
         "U+1A85", "U+1A86", "U+1A87", "U+1A88", "U+1A89">>,
       <<"U+1A90", "U+1A91", "U+1A92", "U+1A93", "U+1A94",
         "U+1A95", "U+1A96", "U+1A97", "U+1A98", "U+1A99">>,
       <<"U+1B50", "U+1B51", "U+1B52", "U+1B53", "U+1B54",
         "U+1B55", "U+1B56", "U+1B57", "U+1B58", "U+1B59">>,
       <<"U+1BB0", "U+1BB1", "U+1BB2", "U+1BB3", "U+1BB4",
         "U+1BB5", "U+1BB6", "U+1BB7", "U+1BB8", "U+1BB9">>,
       <<"U+1C40", "U+1C41", "U+1C42", "U+1C43", "U+1C44",
         "U+1C45", "U+1C46", "U+1C47", "U+1C48", "U+1C49">>,
       <<"U+1C50", "U+1C51", "U+1C52", "U+1C53", "U+1C54",
         "U+1C55", "U+1C56", "U+1C57", "U+1C58", "U+1C59">>,
       <<"U+A620", "U+A621", "U+A622", "U+A623", "U+A624",
         "U+A625", "U+A626", "U+A627", "U+A628", "U+A629">>,
       <<"U+A8D0", "U+A8D1", "U+A8D2", "U+A8D3", "U+A8D4",
         "U+A8D5", "U+A8D6", "U+A8D7", "U+A8D8", "U+A8D9">>,
       <<"U+A900", "U+A901", "U+A902", "U+A903", "U+A904",
         "U+A905", "U+A906", "U+A907", "U+A908", "U+A909">>,
       <<"U+A9D0", "U+A9D1", "U+A9D2", "U+A9D3", "U+A9D4",
         "U+A9D5", "U+A9D6", "U+A9D7", "U+A9D8", "U+A9D9">>,
       <<"U+A9F0", "U+A9F1", "U+A9F2", "U+A9F3", "U+A9F4",
         "U+A9F5", "U+A9F6", "U+A9F7", "U+A9F8", "U+A9F9">>,
       <<"U+AA50", "U+AA51", "U+AA52", "U+AA53", "U+AA54",
         "U+AA55", "U+AA56", "U+AA57", "U+AA58", "U+AA59">>,
       <<"U+ABF0", "U+ABF1", "U+ABF2", "U+ABF3", "U+ABF4",
         "U+ABF5", "U+ABF6", "U+ABF7", "U+ABF8", "U+ABF9">>,
       <<"U+FF10", "U+FF11", "U+FF12", "U+FF13", "U+FF14",
         "U+FF15", "U+FF16", "U+FF17", "U+FF18", "U+FF19">>,
       <<"U+104A0", "U+104A1", "U+104A2", "U+104A3", "U+104A4",
         "U+104A5", "U+104A6", "U+104A7", "U+104A8", "U+104A9">>,
       <<"U+10D30", "U+10D31", "U+10D32", "U+10D33", "U+10D34",
         "U+10D35", "U+10D36", "U+10D37", "U+10D38", "U+10D39">>,
       <<"U+11066", "U+11067", "U+11068", "U+11069", "U+1106A",
         "U+1106B", "U+1106C", "U+1106D", "U+1106E", "U+1106F">>,
       <<"U+110F0", "U+110F1", "U+110F2", "U+110F3", "U+110F4",
         "U+110F5", "U+110F6", "U+110F7", "U+110F8", "U+110F9">>,
       <<"U+11136", "U+11137", "U+11138", "U+11139", "U+1113A",
         "U+1113B", "U+1113C", "U+1113D", "U+1113E", "U+1113F">>,
       <<"U+111D0", "U+111D1", "U+111D2", "U+111D3", "U+111D4",
         "U+111D5", "U+111D6", "U+111D7", "U+111D8", "U+111D9">>,
       <<"U+112F0", "U+112F1", "U+112F2", "U+112F3", "U+112F4",
         "U+112F5", "U+112F6", "U+112F7", "U+112F8", "U+112F9">>,
       <<"U+11450", "U+11451", "U+11452", "U+11453", "U+11454",
         "U+11455", "U+11456", "U+11457", "U+11458", "U+11459">>,
       <<"U+114D0", "U+114D1", "U+114D2", "U+114D3", "U+114D4",
         "U+114D5", "U+114D6", "U+114D7", "U+114D8", "U+114D9">>,
       <<"U+11650", "U+11651", "U+11652", "U+11653", "U+11654",
         "U+11655", "U+11656", "U+11657", "U+11658", "U+11659">>,
       <<"U+116C0", "U+116C1", "U+116C2", "U+116C3", "U+116C4",
         "U+116C5", "U+116C6", "U+116C7", "U+116C8", "U+116C9">>,
       <<"U+11730", "U+11731", "U+11732", "U+11733", "U+11734",
         "U+11735", "U+11736", "U+11737", "U+11738", "U+11739">>,
       <<"U+118E0", "U+118E1", "U+118E2", "U+118E3", "U+118E4",
         "U+118E5", "U+118E6", "U+118E7", "U+118E8", "U+118E9">>,
       <<"U+11950", "U+11951", "U+11952", "U+11953", "U+11954",
         "U+11955", "U+11956", "U+11957", "U+11958", "U+11959">>,
       <<"U+11C50", "U+11C51", "U+11C52", "U+11C53", "U+11C54",
         "U+11C55", "U+11C56", "U+11C57", "U+11C58", "U+11C59">>,
       <<"U+11D50", "U+11D51", "U+11D52", "U+11D53", "U+11D54",
         "U+11D55", "U+11D56", "U+11D57", "U+11D58", "U+11D59">>,
       <<"U+11DA0", "U+11DA1", "U+11DA2", "U+11DA3", "U+11DA4",
         "U+11DA5", "U+11DA6", "U+11DA7", "U+11DA8", "U+11DA9">>,
       <<"U+16A60", "U+16A61", "U+16A62", "U+16A63", "U+16A64",
         "U+16A65", "U+16A66", "U+16A67", "U+16A68", "U+16A69">>,
       <<"U+16AC0", "U+16AC1", "U+16AC2", "U+16AC3", "U+16AC4",
         "U+16AC5", "U+16AC6", "U+16AC7", "U+16AC8", "U+16AC9">>,
       <<"U+16B50", "U+16B51", "U+16B52", "U+16B53", "U+16B54",
         "U+16B55", "U+16B56", "U+16B57", "U+16B58", "U+16B59">>,
       <<"U+1D7CE", "U+1D7CF", "U+1D7D0", "U+1D7D1", "U+1D7D2",
         "U+1D7D3", "U+1D7D4", "U+1D7D5", "U+1D7D6", "U+1D7D7">>,
       <<"U+1D7D8", "U+1D7D9", "U+1D7DA", "U+1D7DB", "U+1D7DC",
         "U+1D7DD", "U+1D7DE", "U+1D7DF", "U+1D7E0", "U+1D7E1">>,
       <<"U+1D7E2", "U+1D7E3", "U+1D7E4", "U+1D7E5", "U+1D7E6",
         "U+1D7E7", "U+1D7E8", "U+1D7E9", "U+1D7EA", "U+1D7EB">>,
       <<"U+1D7EC", "U+1D7ED", "U+1D7EE", "U+1D7EF", "U+1D7F0",
         "U+1D7F1", "U+1D7F2", "U+1D7F3", "U+1D7F4", "U+1D7F5">>,
       <<"U+1D7F6", "U+1D7F7", "U+1D7F8", "U+1D7F9", "U+1D7FA",
         "U+1D7FB", "U+1D7FC", "U+1D7FD", "U+1D7FE", "U+1D7FF">>,
       <<"U+1E140", "U+1E141", "U+1E142", "U+1E143", "U+1E144",
         "U+1E145", "U+1E146", "U+1E147", "U+1E148", "U+1E149">>,
       <<"U+1E2F0", "U+1E2F1", "U+1E2F2", "U+1E2F3", "U+1E2F4",
         "U+1E2F5", "U+1E2F6", "U+1E2F7", "U+1E2F8", "U+1E2F9">>,
       <<"U+1E950", "U+1E951", "U+1E952", "U+1E953", "U+1E954",
         "U+1E955", "U+1E956", "U+1E957", "U+1E958", "U+1E959">>,
       <<"U+1FBF0", "U+1FBF1", "U+1FBF2", "U+1FBF3", "U+1FBF4",
         "U+1FBF5", "U+1FBF6", "U+1FBF7", "U+1FBF8", "U+1FBF9">> >>
DigitSet == UNION {CharSet(DigitChars[r]) : r \in DOMAIN DigitChars}
IsDigit(c) == c \in DigitSet
DigitValue(c) ==
    (CHOOSE i \in 1..10 : \E r \in DOMAIN DigitChars : DigitChars[r][i] = c) - 1

\* A numeral without its sign.
Unsigned(s) == IF s # <<>> /\ Head(s) \in {"+", "-"} THEN Tail(s) ELSE s

\* sys.get_int_max_str_digits(): the most digits int() converts.
IntMaxStrDigits == 4300

\* int(choice) does not raise ValueError: an optional sign, then digits,
\* single underscores allowed between digits, at most IntMaxStrDigits
\* digits (leading zeros counted, sign and underscores not).
IsNumber(s) ==
    LET b == Unsigned(s) IN
    /\ b # <<>>
    /\ IsDigit(b[1])
    /\ IsDigit(b[Len(b)])
    /\ \A i \in 1..Len(b) : IsDigit(b[i]) \/ (b[i] = "_" /\ IsDigit(b[i + 1]))
    /\ Len(SelectSeq(b, IsDigit)) <= IntMaxStrDigits

RECURSIVE DigitsValue(_, _)
DigitsValue(b, acc) ==
    IF b = <<>> THEN acc
    ELSE IF Head(b) = "_" THEN DigitsValue(Tail(b), acc)
    ELSE DigitsValue(Tail(b), acc * 10 + DigitValue(Head(b)))

\* int(choice), 0 where it raises ValueError (0 is no menu number).
ParseInt(s) ==
    IF ~IsNumber(s) THEN 0
    ELSE IF Head(s) = "-" THEN 0 - DigitsValue(Unsigned(s), 0)
    ELSE DigitsValue(Unsigned(s), 0)

\* str.replace('_', ' ').
ReplaceUnderscores(s) == [i \in 1..Len(s) |-> IF s[i] = "_" THEN " " ELSE s[i]]

\* get_category_choice, lines 72-74: the categories whose name, or whose
\* name with spaces for underscores, the choice spells.
NameMatches(categories, choice) ==
    {i \in 1..Len(categories) :
        \/ choice = LowerSeq(categories[i])
        \/ choice = LowerSeq(ReplaceUnderscores(categories[i]))}

\* What one pass of get_category_choice's loop comes to: it returns 'quit',
\* it returns a category or None, or the loop goes round again.
ChoiceQuit == [kind |-> "quit", category |-> NoCategory]
ChoiceReprompt == [kind |-> "reprompt", category |-> NoCategory]
Chosen(category) == [kind |-> "chosen", category |-> category]

\* get_category_choice(categories), one pass of its loop on what input()
\* gives: 'quit' (also where input() raises), None (all categories), a
\* category, or the next pass.
get_category_choice(categories, raw) ==
    IF raw.raised # "none" THEN ChoiceQuit
    ELSE LET choice == StrLower(raw.line)
             hits   == NameMatches(categories, choice)
         IN
         IF choice \in QuitWordSeqs THEN ChoiceQuit
         ELSE IF IsNumber(choice)
         THEN IF 1 <= ParseInt(choice) /\ ParseInt(choice) <= Len(categories)
              THEN Chosen(Category(categories[ParseInt(choice)]))
              ELSE IF ParseInt(choice) = Len(categories) + 1
              THEN Chosen(NoCategory)
              ELSE ChoiceReprompt
         ELSE IF hits # {}
         THEN Chosen(Category(categories[CHOOSE i \in hits :
                                             \A j \in hits : i <= j]))
         ELSE IF choice \in {<<"a", "l", "l">>, <<"m", "i", "x", "e", "d">>,
                             <<"a", "n", "y">>}
         THEN Chosen(NoCategory)
         ELSE ChoiceReprompt

\* What the player may type at the play-again prompt.
AgainInputs ==
    Lines({
      <<"y">>, <<"Y", "E", "S">>, <<" ", "y">>, <<"n">>, <<"N", "o">>,
      <<"m", "a", "y", "b", "e">> })
        \cup {InputEOF, InputInterrupt}

\* ask_play_again(), one pass of its loop: "yes", "no" (also where input()
\* raises) or "reprompt".
ask_play_again(raw) ==
    IF raw.raised # "none" THEN "no"
    ELSE LET choice == StrLower(raw.line) IN
         IF choice \in {<<"y">>, <<"y", "e", "s">>, <<"y", "e", "a", "h">>, <<"y", "e", "p">>}
         THEN "yes"
         ELSE IF choice \in {<<"n">>, <<"n", "o">>, <<"n", "o", "p", "e">>} THEN "no"
         ELSE "reprompt"

(***************************************************************************)
(* The initial state: the process has been started, main() has yet to call *)
(* initialize_game().                                                      *)
(***************************************************************************)
\* Words as load_words leaves them (stripped, lower-cased, no empty line):
\* a plain word (with a repeated letter), a two-word target, a hyphenated
\* target, a one-letter word.
WordABA    == <<"a", "b", "a">>
WordAB_A   == <<"a", "b", " ", "a">>
WordAHypB  == <<"a", "-", "b">>
WordA      == <<"a">>
WordCat    == <<"c", "a", "t">>

\* An installation with category files (science.txt exists and is empty,
\* programming.txt does not exist) and a player who uses few letters, the
\* whole-word prompt, quit and mistyped lines, and plays one game.
MixedAllWords == <<WordABA, WordAB_A>>
MixedCategoryWords ==
    (animals :> <<WordABA>>) @@ (countries :> <<WordAB_A>>)
        @@ (science :> <<>>)
\* Its files as they are on disk: capitals, spaces around a word, lines
\* that are empty or blank.
MixedWordsDir ==
    [main       |-> { << <<"A", "b", "a">>, <<>>,
                         <<" ", "a", "b", " ", "a", " ">>, <<" ">> >> },
     readable   |-> TRUE,
     categories |-> (animals :> << <<"a", "b", "a", " ">> >>)
                       @@ (countries :> << <<>>, <<"A", "B", " ", "A">> >>)
                       @@ (science :> << <<" ">> >>)]
MixedKeys ==
    [letter |-> Lines({
                    <<"a">>, <<"b">>, <<"x">>, <<"A">>, <<" ", "a">>,
                    <<"g", "u", "e", "s", "s">>,
                    <<"G", "U", "E", "S", "S">>,
                    <<"G", "u", "e", "s", "s">>, <<"q", "u", "i", "t">>,
                    <<"Q", "u", "i", "t">>, <<"E", "x", "i", "t">>,
                    <<"q">>, <<"a", "b">>, <<"1">>, <<>>, <<" ">> })
                   \cup {InputEOF, InputInterrupt},
     word   |-> WordInputs,
     games  |-> 1,
     tidy   |-> FALSE]

\* An installation whose words.txt holds a hyphenated word.
HyphenAllWords == <<WordAHypB>>
HyphenCategoryWords == (animals :> <<WordAHypB>>)
HyphenWordsDir ==
    [main       |-> {HyphenAllWords},
     readable   |-> TRUE,
     categories |-> HyphenCategoryWords]
HyphenKeys ==
    [letter |-> Lines({<<"a">>, <<"b">>, <<"x">>,
                        <<"g", "u", "e", "s", "s">>, <<"q", "u", "i", "t">>}),
     word   |-> Lines({<<"a", "b">>, <<"a", "-", "b">>}),
     games  |-> 1,
     tidy   |-> FALSE]

\* An installation with words.txt alone and a player who only types
\* letters, among them six that are not in the word.
LettersAllWords == <<WordA>>
LettersCategoryWords == [c \in {} |-> <<>>]
LettersWordsDir ==
    [main       |-> {LettersAllWords},
     readable   |-> TRUE,
     categories |-> LettersCategoryWords]
LettersKeys ==
    [letter |-> Lines({<<"a">>, <<"u">>, <<"v">>, <<"w">>, <<"x">>, <<"y">>, <<"z">>, <<"U">>}),
     word   |-> {},
     games  |-> 1,
     tidy   |-> FALSE]

\* An installation without words.txt, with animals.txt and an empty
\* science.txt, and a player who types four letters or quits.
CatAllWords == <<>>
CatCategoryWords == (animals :> <<WordCat>>) @@ (science :> <<>>)
CatWordsDir ==
    [main       |-> {},
     readable   |-> TRUE,
     categories |-> CatCategoryWords]
CatKeys ==
    [letter |-> Lines({<<"c">>, <<"x">>, <<"a">>, <<"t">>, <<"q", "u", "i", "t">>}),
     word   |-> {},
     games  |-> MaxGames,
     tidy   |-> FALSE]

\* A player who only guesses whole words, right or wrong, in an
\* installation where earlier games' directories get deleted.
TidyKeys ==
    [letter |-> Lines({<<"g", "u", "e", "s", "s">>, <<"q", "u", "i", "t">>}),
     word   |-> Lines({<<"c", "a", "t">>, <<"t", "a", "c">>}),
     games  |-> MaxGames,
     tidy   |-> TRUE]

\* An installation whose words.txt holds a word with accented letters,
\* written with a capital and followed by a no-break space, and a player
\* who types accented capitals, those beyond U+00FF among them.
WordEte == <<"é", "t", "é">>
AccentAllWords == <<WordEte>>
AccentWordsDir ==
    [main       |-> { << <<"É", "t", "é", " ">> >> },
     readable   |-> TRUE,
     categories |-> [c \in {} |-> <<>>]]
AccentKeys ==
    [letter |-> Lines({<<"É">>, <<"t">>, <<"U+0178">>, <<"é", "">>, <<"×">>,
                        <<"g", "u", "e", "s", "s">>}),
     word   |-> Lines({<<"É", "T", "É">>, <<"U+0112", "t", "U+0113">>,
                      <<"é", "2">>}),
     games  |-> 1,
     tidy   |-> FALSE]

\* An installation with no word data: no words.txt, no category file.
BareWordsDir ==
    [main       |-> {},
     readable   |-> TRUE,
     categories |-> [c \in {} |-> <<>>]]
BareKeys ==
    [letter |-> Lines({<<"a">>, <<"q", "u", "i", "t">>}),
     word   |-> {},
     games  |-> 1,
     tidy   |-> FALSE]

\* An installation whose words.txt cannot be opened for reading.
LockedWordsDir ==
    [main       |-> {LettersAllWords},
     readable   |-> FALSE,
     categories |-> LettersCategoryWords]

\* The transcript an earlier session left in game_log/game2, game1 deleted.
OldLog ==
    [game          |-> 2,
     category      |-> Title(animals),
     word          |-> WordCat,
     word_length   |-> 3,
     wrong_count   |-> 6,
     remaining     |-> 0,
     result        |-> "Loss",
     points        |-> 0,
     total_score   |-> 0,
     games_played  |-> 2,
     wins          |-> 0,
     losses        |-> 2,
     win_rate      |-> <<0, 2>>]
OldLogs == [n \in {2} |-> OldLog]

\* What statistics.json may hold when the program starts: the kinds of
\* file load_statistics tells apart, and objects with no key, with one key,
\* without total_score and the float fields, and with every key.
StatsWinsOnly == [k \in {"wins"} |-> 3]
StatsNoTotal == [games_played |-> 1, wins |-> 1, losses |-> 0]
StatsFull ==
    [games_played  |-> 2,
     wins          |-> 1,
     losses        |-> 1,
     total_score   |-> 25,
     win_rate      |-> <<100, 2>>,
     average_score |-> <<25, 2>>,
     last_played   |-> "earlier"]
\* An object with a key update_statistics does not know.
StatsExtra == [k \in {"foo"} |-> 1]
\* [], 5, and the list of the seven key names.
StatsFiles ==
    {FileAbsent, FileUnreadable, FileMalformed, FileUndecodable,
     FileNonObject("list", {}), FileNonObject("number", {}),
     FileNonObject("list", StatsKeys), FileObject(NoData),
     FileObject(StatsWinsOnly), FileObject(StatsNoTotal),
     FileObject(StatsExtra), FileObject(StatsFull)}

\* The files a session of games is played on: those of StatsFiles that
\* differ in what a game leaves behind.
SessionFiles ==
    {FileAbsent, FileUnreadable, FileMalformed, FileNonObject("list", {}),
     FileNonObject("list", StatsKeys), FileObject(StatsWinsOnly),
     FileObject(StatsExtra), FileObject(StatsFull)}

\* The files tried with a statistics.json that cannot be written.
UnwritableFiles == {FileAbsent, FileUnreadable, FileObject(StatsFull)}

InitGame ==
    /\ pc = "startup"
    /\ all_words = <<>>
    /\ category_words = <<>>
    /\ current_word = <<>>
    /\ current_category = <<>>
    /\ guessed_letters = {}
    /\ correct_letters = {}
    /\ wrong_letters = {}
    /\ wrong_guesses = 0
    /\ game_won = FALSE
    /\ game_lost = FALSE
    /\ guess_count = 0
    /\ progress_trace = <<>>
    /\ current_game_number = 1
    /\ result = "none"
    /\ score = 0
    /\ wrong_word_guesses = 0
    /\ stats = default_stats
    /\ started = "none"
    /\ end_calls = <<>>
    /\ letter_guesses = 0
    /\ word_guesses = 0
    /\ game_numbers = <<>>
    /\ outcomes = <<>>
    /\ stats0 = stats_file
    /\ stats_before = stats_file
    /\ guess_order = <<>>

Init ==
    /\ \/ /\ words_dir = MixedWordsDir
          /\ keys = MixedKeys
          /\ stats_file = FileAbsent
          /\ stats_writable = TRUE
          /\ log_writable = TRUE
          /\ game_dirs = {}
          /\ logs = NoData
       \/ /\ words_dir = HyphenWordsDir
          /\ keys = HyphenKeys
          /\ stats_file = FileAbsent
          /\ stats_writable = TRUE
          /\ log_writable = TRUE
          /\ game_dirs = {}
          /\ logs = NoData
       \/ /\ words_dir = LettersWordsDir
          /\ keys = LettersKeys
          /\ stats_file = FileAbsent
          /\ stats_writable = TRUE
          /\ log_writable = TRUE
          /\ game_dirs = {}
          /\ logs = NoData
       \/ /\ words_dir = AccentWordsDir
          /\ keys = AccentKeys
          /\ stats_file = FileAbsent
          /\ stats_writable = TRUE
          /\ log_writable = TRUE
          /\ game_dirs = {}
          /\ logs = NoData
       \/ /\ words_dir = CatWordsDir
          /\ keys = CatKeys
          /\ \/ stats_file \in SessionFiles /\ stats_writable = TRUE
             \/ stats_file \in UnwritableFiles /\ stats_writable = FALSE
          /\ log_writable = TRUE
          /\ game_dirs = {}
          /\ logs = NoData
       \/ /\ words_dir = CatWordsDir
          /\ keys = TidyKeys
          /\ stats_file = FileAbsent
          /\ stats_writable = TRUE
          /\ log_writable = TRUE
          /\ \/ game_dirs = {} /\ logs = NoData
             \/ game_dirs = {2} /\ logs = OldLogs
       \/ \* a read-only installation: nothing can be created in it
          /\ words_dir = CatWordsDir
          /\ keys = CatKeys
          /\ stats_file = FileAbsent
          /\ stats_writable = FALSE
          /\ log_writable = FALSE
          /\ game_dirs = {}
          /\ logs = NoData
       \/ /\ words_dir \in {BareWordsDir, LockedWordsDir}
          /\ keys = BareKeys
          /\ stats_file = FileAbsent
          /\ stats_writable = TRUE
          /\ log_writable = TRUE
          /\ game_dirs = {}
          /\ logs = NoData
    /\ InitGame

(***************************************************************************)
(* run_game(), play_game(), end_game(): one action per prompt answered.    *)
(***************************************************************************)
\* main(): initialize_game(PROJECT_ROOT), then run_game() at its first
\* category prompt; an exception out of initialize_game is caught, "Fatal
\* error occurred" is shown and the process exits with status 1.
main ==
    /\ pc = "startup"
    /\ LET r == initialize_game(words_dir) IN
       IF r.raised
       THEN /\ pc' = "aborted"
            /\ UNCHANGED <<all_words, category_words>>
       ELSE /\ pc' = "category"
            /\ all_words' = r.all_words
            /\ category_words' = r.category_words
    /\ UNCHANGED <<words_dir, gamevars, current_game_number, game_dirs,
                   result, score, keys, started, filevars, histvars,
                   countvars>>

\* start_new_game without its reset_game_state(): the word and the first
\* trace entry set on the state the last game left.
StartedGameNoReset(word, cat) ==
    LET g == [Game EXCEPT !.current_word = word,
                          !.current_category = cat]
    IN [g EXCEPT !.progress_trace = Append(@, get_word_progress(g))]

\* start_new_game(category) where get_random_word gave (word, cat): the
\* state after reset, with the first trace entry.
StartedGame(word, cat) ==
    LET g == [reset_game_state EXCEPT !.current_word = word,
                                      !.current_category = cat]
    IN [g EXCEPT !.progress_trace = Append(@, get_word_progress(g))]

\* run_game told that start_new_game failed leaving its loop (break).
AfterStartBreaks(ok) == IF ok THEN "play" ELSE "exit"

\* run_game, lines 503-506: play_game() when start_new_game returned True,
\* else continue, back to the category prompt.
AfterStart(ok) == IF ok THEN "play" ELSE "category"

\* run_game at the category prompt: get_category_choice, then
\* start_new_game(chosen_category) and, when it succeeds, play_game's entry.
run_game_category ==
    /\ pc = "category"
    /\ \E raw \in CategoryInputs :
         LET chosen == get_category_choice(get_available_categories, raw) IN
         IF chosen.kind = "reprompt" THEN UNCHANGED vars
         ELSE IF chosen.kind = "quit"
         THEN /\ pc' = "exit"
              /\ UNCHANGED <<wordvars, gamevars,
                             current_game_number, game_dirs, result, score,
                             keys, started, filevars, histvars, countvars>>
         ELSE IF get_random_word(chosen.category) = {}
         THEN \* start_new_game returns False after reset_game_state()
              /\ pc' = AfterStart(FALSE)
              /\ started' = "failed"
              /\ SetGame(reset_game_state)
              /\ wrong_word_guesses' = 0
              /\ letter_guesses' = 0
              /\ word_guesses' = 0
              /\ guess_order' = <<>>
              /\ end_calls' = <<>>
              /\ UNCHANGED <<wordvars, current_game_number,
                             game_dirs, result, score, keys, filevars,
                             game_numbers, outcomes, stats0, stats_before>>
         ELSE IF start_game_log(game_dirs, log_writable,
                                get_next_game_number).raised
         THEN \* start_new_game returns False after it has drawn the word,
              \* started the trace and taken the number
              /\ \E wc \in get_random_word(chosen.category) :
                    SetGame(StartedGame(wc[1], wc[2]))
              /\ current_game_number' = get_next_game_number
              /\ pc' = AfterStart(FALSE)
              /\ started' = "failed"
              /\ wrong_word_guesses' = 0
              /\ letter_guesses' = 0
              /\ word_guesses' = 0
              /\ guess_order' = <<>>
              /\ end_calls' = <<>>
              /\ UNCHANGED <<wordvars, game_dirs, result, score, keys,
                             filevars, game_numbers, outcomes, stats0,
                             stats_before>>
         ELSE /\ Len(game_numbers) < keys.games
              /\ \E wc \in get_random_word(chosen.category) :
                    SetGame(StartedGame(wc[1], wc[2]))
              /\ current_game_number' = get_next_game_number
              /\ game_dirs' = start_game_log(game_dirs, log_writable,
                                             get_next_game_number).dirs
              /\ game_numbers' = Append(game_numbers, get_next_game_number)
              /\ pc' = AfterStart(TRUE)
              /\ started' = "ok"
              /\ result' = "none"
              /\ wrong_word_guesses' = 0
              /\ letter_guesses' = 0
              /\ word_guesses' = 0
              /\ guess_order' = <<>>
              /\ end_calls' = <<>>
              /\ stats_before' = stats_file
              /\ UNCHANGED <<wordvars, score, keys,
                             filevars, outcomes, stats0>>

\* The loop condition that forgets game_lost.
PlayLoopConditionWonOnly == ~game_won

\* play_game's loop condition: while not game_won and not game_lost.
PlayLoopCondition == ~game_won /\ ~game_lost

\* play_game at the letter prompt: get_user_guess, then quit, the switch to
\* the whole-word prompt, or process_letter_guess.
play_game_letter ==
    /\ pc = "play"
    /\ PlayLoopCondition
    /\ \E raw \in keys.letter :
         LET user_input == get_user_guess(raw) IN
         IF user_input = "reprompt" THEN UNCHANGED vars
         ELSE IF user_input = "quit"
         THEN /\ pc' = "again"
              /\ UNCHANGED <<wordvars, gamevars,
                             current_game_number, game_dirs, result, score,
                             keys, started, filevars, histvars, countvars>>
         ELSE IF user_input = "guess"
         THEN /\ pc' = "word"
              /\ UNCHANGED <<wordvars, gamevars,
                             current_game_number, game_dirs, result, score,
                             keys, started, filevars, histvars, countvars>>
         ELSE LET r == process_letter_guess(Game, user_input) IN
              /\ SetGame(r.game)
              /\ result' = r.result
              /\ letter_guesses' =
                    IF r.result = "repeated" THEN letter_guesses
                    ELSE letter_guesses + 1
              /\ guess_order' =
                    IF r.result = "repeated" THEN guess_order
                    ELSE Append(guess_order, user_input)
              /\ pc' = "play"
              /\ UNCHANGED <<wordvars, current_game_number,
                             game_dirs, score, keys, started, filevars,
                             histvars, wrong_word_guesses, word_guesses>>

\* play_game at the whole-word prompt: get_full_word_guess, then quit or
\* process_word_guess.
play_game_word ==
    /\ pc = "word"
    /\ \E raw \in keys.word :
         LET word_guess == get_full_word_guess(raw) IN
         IF word_guess.kind = "reprompt" THEN UNCHANGED vars
         ELSE IF word_guess.kind = "quit"
         THEN /\ pc' = "again"
              /\ UNCHANGED <<wordvars, gamevars,
                             current_game_number, game_dirs, result, score,
                             keys, started, filevars, histvars, countvars>>
         ELSE LET r == process_word_guess(Game, word_guess.word) IN
              /\ SetGame(r.game)
              /\ result' = r.result
              /\ wrong_word_guesses' =
                    IF r.result = "wrong" THEN wrong_word_guesses + 1
                    ELSE wrong_word_guesses
              /\ word_guesses' = word_guesses + 1
              /\ pc' = "play"
              /\ UNCHANGED <<wordvars, current_game_number,
                             game_dirs, score, keys, started, filevars,
                             histvars, letter_guesses, guess_order>>

\* end_game(), entered when play_game's loop ends: calculate_score, then
\* update_statistics, then (after the displays) save_game_log.  An exception
\* out of update_statistics leaves end_game and play_game and is caught by
\* run_game, which shows it and leaves its loop.
end_game ==
    /\ pc = "play"
    /\ ~PlayLoopCondition
    /\ LET sc == calculate_score(Game, Len(current_word), wrong_guesses)
           u  == update_statistics(stats_file, stats_writable, game_won, sc)
       IN
       /\ score' = sc
       /\ stats_file' = u.file
       /\ IF u.raised
          THEN /\ end_calls' = end_calls \o <<"score">>
               /\ pc' = "exit"
               /\ UNCHANGED <<stats, logs, outcomes>>
          ELSE /\ end_calls' = end_calls \o <<"score", "record", "log">>
               /\ stats' = u.stats
               /\ outcomes' = Append(outcomes, <<game_won, sc>>)
               /\ logs' = save_game_log(logs, game_dirs, Game,
                                        current_game_number, game_won, sc,
                                        u.stats)
               /\ pc' = "again"
    /\ UNCHANGED <<wordvars, gamevars, current_game_number,
                   game_dirs, result, keys, started, stats_writable,
                   log_writable,
                   game_numbers, stats0, stats_before, countvars>>

\* run_game at the play-again prompt.
run_game_again ==
    /\ pc = "again"
    /\ \E raw \in AgainInputs :
         LET again == ask_play_again(raw) IN
         IF again = "reprompt" THEN UNCHANGED vars
         ELSE /\ pc' = IF again = "yes" THEN "category" ELSE "exit"
              /\ UNCHANGED <<wordvars, gamevars,
                             current_game_number, game_dirs, result, score,
                             keys, started, filevars, histvars, countvars>>

\* Someone removes an earlier game's directory, log.txt with it, from
\* game_log: any but the one with the largest number, which
\* get_next_game_number reads.
delete_game_dir ==
    /\ keys.tidy
    /\ \E n \in game_dirs :
         /\ n < SetMax(game_dirs)
         /\ game_dirs' = game_dirs \ {n}
         /\ logs' = [m \in DOMAIN logs \ {n} |-> logs[m]]
    /\ UNCHANGED <<pc, wordvars, gamevars,
                   current_game_number, result, score, keys, started,
                   stats_file, stats_writable, log_writable, stats,
                   histvars, countvars>>

Next ==
    \/ main
    \/ run_game_category
    \/ play_game_letter
    \/ play_game_word
    \/ end_game
    \/ run_game_again
    \/ delete_game_dir

Spec == Init /\ [][Next]_vars

(***************************************************************************)
(* calculate_score on its own: end_game entered with any word length up to *)
(* MaxWordLen and any wrong-guess count up to MaxWrongArg, won or lost.    *)
(***************************************************************************)
InitScore ==
    /\ pc = "play"
    /\ words_dir = LettersWordsDir
    /\ all_words = LettersAllWords
    /\ category_words = LoadCategories(<<>>, LettersCategoryWords, 1)
    /\ keys = LettersKeys
    /\ \E n \in 1..MaxWordLen : current_word = [i \in 1..n |-> "a"]
    /\ current_category = mixed
    /\ guessed_letters = {"a"}
    /\ correct_letters = {"a"}
    /\ wrong_letters = {}
    /\ wrong_guesses \in 0..MaxWrongArg
    /\ game_won \in BOOLEAN
    /\ game_lost = ~game_won
    /\ guess_count = 1
    /\ progress_trace = <<>>
    /\ current_game_number = 1
    /\ game_dirs = {1}
    /\ result = "none"
    /\ score = 0
    /\ wrong_word_guesses = wrong_guesses
    /\ stats_file = FileAbsent
    /\ stats_writable = TRUE
    /\ log_writable = TRUE
    /\ stats = default_stats
    /\ logs = NoData
    /\ started = "ok"
    /\ end_calls = <<>>
    /\ letter_guesses = 1
    /\ word_guesses = wrong_guesses
    /\ game_numbers = <<1>>
    /\ outcomes = <<>>
    /\ stats0 = FileAbsent
    /\ stats_before = FileAbsent
    /\ guess_order = <<"a">>

SpecScore == InitScore /\ [][end_game]_vars

(***************************************************************************)
(* update_statistics on its own: called up to MaxOutcomes times, with any  *)
(* outcome and one of the scores ScoreArgs, on each of the files           *)
(* StatsFiles, writable or not.                                            *)
(***************************************************************************)
ScoreArgs == {0, 10, 25}

InitStats ==
    /\ pc = "stats"
    /\ words_dir = CatWordsDir
    /\ all_words = CatAllWords
    /\ category_words = LoadCategories(<<>>, CatCategoryWords, 1)
    /\ keys = CatKeys
    /\ current_word = <<>>
    /\ current_category = <<>>
    /\ guessed_letters = {}
    /\ correct_letters = {}
    /\ wrong_letters = {}
    /\ wrong_guesses = 0
    /\ game_won = FALSE
    /\ game_lost = FALSE
    /\ guess_count = 0
    /\ progress_trace = <<>>
    /\ current_game_number = 1
    /\ game_dirs = {}
    /\ result = "none"
    /\ score = 0
    /\ wrong_word_guesses = 0
    /\ stats_file \in StatsFiles
    /\ stats_writable \in BOOLEAN
    /\ log_writable = TRUE
    /\ stats = default_stats
    /\ logs = NoData
    /\ started = "none"
    /\ end_calls = <<>>
    /\ letter_guesses = 0
    /\ word_guesses = 0
    /\ game_numbers = <<>>
    /\ outcomes = <<>>
    /\ stats0 = stats_file
    /\ stats_before = stats_file
    /\ guess_order = <<>>

\* One call update_statistics(won, sc).
update_statistics_call ==
    /\ pc = "stats"
    /\ Len(outcomes) < MaxOutcomes
    /\ \E won \in BOOLEAN, sc \in ScoreArgs :
         LET u == update_statistics(stats_file, stats_writable, won, sc) IN
         /\ stats_file' = u.file
         /\ IF u.raised
            THEN UNCHANGED <<stats, outcomes>>
            ELSE /\ stats' = u.stats
                 /\ outcomes' = Append(outcomes, <<won, sc>>)
    /\ UNCHANGED <<pc, wordvars, gamevars,
                   current_game_number, game_dirs, result, score, keys,
                   started, stats_writable, log_writable, logs, end_calls,
                   game_numbers,
                   stats0, stats_before, countvars>>

SpecStats == InitStats /\ [][update_statistics_call]_vars

(***************************************************************************)
(* The claims.                                                             *)
(***************************************************************************)
\* A game has been started: start_new_game has set a word (load_words keeps
\* no empty word) and the state has not been reset since.
Started == current_word # <<>>

\* The score the specification gives: 0 when not won, else
\* max(wordLength * 10 - wrongGuessCount * 5, 10).
SpecScoreOf(wordLength, wrongGuessCount, won) ==
    IF ~won THEN 0
    ELSE IF wordLength * 10 - wrongGuessCount * 5 >= 10
         THEN wordLength * 10 - wrongGuessCount * 5
         ELSE 10

\* C1: in every state of a started game, won is true if and only if every
\* alphabetic character of the target word is in correctLetters, whatever
\* the target (spaces and hyphens included).
C1_WonIffAlphaCovered ==
    /\ pc = "play"

\* C4: the score end_game computes for a finished game is 0 when the game is not won and
\* max(wordLength * 10 - wrongGuessCount * 5, 10) when it is, for every word
\* length and wrong-guess count; score(5,0,won) = 50, score(5,3,won) = 35,
\* score(5,10,won) = 10, score(5,w,not won) = 0.
C4_Score ==
    (pc = "again" /\ (game_won \/ game_lost)) =>
        /\ score = SpecScoreOf(Len(current_word), wrong_guesses, game_won)
        /\ (Len(current_word) = 5 /\ wrong_guesses = 0 /\ game_won) => score = 50
        /\ (Len(current_word) = 5 /\ wrong_guesses = 3 /\ game_won) => score = 35
        /\ (Len(current_word) = 5 /\ wrong_guesses = 10 /\ game_won) => score = 10
        /\ (Len(current_word) = 5 /\ ~game_won) => score = 0

\* C4 witness: the floor applies, score(5, 10, won) = 10.
C4_Witness ==
    /\ pc = "again"
    /\ Len(current_word) = 5
    /\ wrong_guesses = 10
    /\ game_won
    /\ score = 10

\* C5: after a sequence of distinct correct letter guesses alone (no wrong
\* guess, no whole-word guess) that covers every alphabetic character of
\* the target, the game is won and not lost.
C5_CoveredByLettersWins ==
    ( /\ Started
      /\ wrong_guesses = 0
      /\ wrong_word_guesses = 0
      /\ guess_count = Cardinality(guessed_letters)
      /\ \A i \in 1..Len(current_word) :
            IsAlpha(current_word[i]) => current_word[i] \in correct_letters )
    => (game_won /\ ~game_lost)

\* C6: lost is true if and only if wrongGuessCount >= 6, the number of
\* hangman stages minus one.
C6_LostIffSixWrong ==
    /\ game_lost <=> wrong_guesses >= 6
    /\ max_wrong_guesses = 6

\* C6 witness: six distinct incorrect letters, and nothing else wrong, have
\* lost the game.
C6_Witness ==
    /\ game_lost
    /\ Cardinality(wrong_letters) = 6
    /\ wrong_guesses = 6
    /\ wrong_word_guesses = 0

\* C7: correctLetters and wrongLetters partition guessedLetters.
C7_Partition ==
    /\ correct_letters \cup wrong_letters = guessed_letters
    /\ correct_letters \cap wrong_letters = {}

\* C7 witness: after a wrong letter, a repeated letter and a wrong word, a
\* right whole-word guess has added letters never guessed one by one.
C7_Witness ==
    /\ game_won
    /\ result = "correct"
    /\ wrong_letters # {}
    /\ wrong_word_guesses > 0
    /\ guess_count < Cardinality(guessed_letters) + wrong_word_guesses

\* The letters process_letter_guess may be handed, in either case: those
\* of Latin-1, and of those beyond A with macron in both cases and capital
\* y with diaeresis.
LetterArgs ==
    LowerLetters \cup UpperLetters \cup {"U+0100", "U+0101", "U+0178"}

\* C8: a letter guess whose letter, lower-cased, is already in
\* guessedLetters returns "repeated" and changes no game field.
C8_RepeatedIsNoOp ==
    \A letter \in LetterArgs :
        Str(Lower(letter)) \in guessed_letters =>
            process_letter_guess(Game, letter) = [game |-> Game, result |-> "repeated"]

\* C8 witness: play_game has just processed a repeated letter, in a game
\* with both correct and wrong letters guessed.
C8_Witness ==
    /\ pc = "play"
    /\ result = "repeated"
    /\ correct_letters # {}
    /\ wrong_letters # {}

\* C9: wrongGuessCount = |wrongLetters| + the number of wrong whole-word
\* guesses of this game.
C9_WrongCount ==
    wrong_guesses = Cardinality(wrong_letters) + wrong_word_guesses

\* C9 witness: a game lost by wrong letters and wrong words together.
C9_Witness ==
    /\ game_lost
    /\ wrong_letters # {}
    /\ wrong_word_guesses >= 2

\* The words process_word_guess may be handed: what the word prompt lets
\* through, and the same lines as typed.
WordArgs ==
    {get_full_word_guess(raw).word :
        raw \in {r \in WordInputs : get_full_word_guess(r).kind = "word"}}
    \cup {raw.line : raw \in WordInputs} \cup {WordAHypB}

\* C2: Won and Lost are terminal: in every state of a started game in which
\* won or lost is true, guessLetter on any letter and guessWord on any word
\* leave every game field (the three letter sets, wrongGuessCount,
\* guessCount, won, lost, progressTrace) unchanged.
C2_TerminalGuessIsNoOp ==
    (Started /\ (game_won \/ game_lost)) =>
        /\ \A letter \in LetterArgs :
              process_letter_guess(Game, letter).game = Game
        /\ \A guess \in WordArgs :
              process_word_guess(Game, guess).game = Game

\* C10: a whole-word guess equal to the target, after lower-casing the guess
\* and removing the spaces of both, returns "correct", sets won and leaves
\* every alphabetic character of the target in guessedLetters and in
\* correctLetters; any other whole-word guess returns "wrong" and leaves
\* the three letter sets unchanged.
C10_WordGuess ==
    Started =>
      \A guess \in WordArgs :
        LET r == process_word_guess(Game, guess) IN
        IF RemoveSpaces(LowerSeq(guess)) = RemoveSpaces(current_word)
        THEN /\ r.result = "correct"
             /\ r.game.game_won
             /\ \A i \in 1..Len(current_word) :
                   IsAlpha(current_word[i]) =>
                       /\ current_word[i] \in r.game.guessed_letters
                       /\ current_word[i] \in r.game.correct_letters
        ELSE /\ r.result = "wrong"
             /\ r.game.guessed_letters = guessed_letters
             /\ r.game.correct_letters = correct_letters
             /\ r.game.wrong_letters = wrong_letters

\* C10 witness: the first guess of a game was the right whole word, typed
\* with a space the target does not have or without one it has.
C10_Witness ==
    /\ pc = "play"
    /\ result = "correct"
    /\ game_won
    /\ guess_count = 1
    /\ Cardinality(correct_letters) = 2
    /\ guessed_letters = correct_letters

\* The trace of the game on "cat" with the guesses c, x, a, t in this order.
CatTrace ==
    << <<"_", " ", "_", " ", "_">>,
       <<"c", " ", "_", " ", "_">>,
       <<"c", " ", "_", " ", "_", " (", "x", " wrong - no progress change)">>,
       <<"c", " ", "a", " ", "_">>,
       <<"c", " ", "a", " ", "t">> >>

\* The steps of end_game, in the order the specification gives them.
EndSteps == <<"score", "record", "log">>

\* The game has ended by a win or a loss and play_game has gone on from its
\* loop.
GameOver == (game_won \/ game_lost) /\ pc # "play"

\* C11: every game that reaches Won or Lost through play triggers, exactly
\* once and in this order, the score computation, recordOutcome(won, score)
\* (a lost game adds 0) and writeLog for the game's number; a game not yet
\* over has triggered none of them; on target "cat" the guesses c, x, a, t
\* give Correct, Wrong, Correct, Correct, Won with wrongGuessCount = 1 and
\* the recorded score 25.
C11_EndOfGame ==
    /\ GameOver =>
          /\ end_calls = EndSteps
          /\ score = SpecScoreOf(Len(current_word), wrong_guesses, game_won)
          /\ outcomes # <<>>
          /\ outcomes[Len(outcomes)] = <<game_won, score>>
          /\ game_lost => score = 0
          /\ current_game_number \in DOMAIN logs
          /\ logs[current_game_number].game = current_game_number
          /\ logs[current_game_number].points = score
          /\ logs[current_game_number].total_score = stats.total_score
    /\ ~(game_won \/ game_lost) => end_calls = <<>>
    /\ LET r1 == process_letter_guess(StartedGame(WordCat, animals), "c")
           r2 == process_letter_guess(r1.game, "x")
           r3 == process_letter_guess(r2.game, "a")
           r4 == process_letter_guess(r3.game, "t")
       IN /\ <<r1.result, r2.result, r3.result, r4.result>>
                = <<"correct", "wrong", "correct", "correct">>
          /\ r4.game.game_won
          /\ r4.game.wrong_guesses = 1
          /\ r4.game.progress_trace = CatTrace
    /\ (GameOver /\ progress_trace = CatTrace) =>
          /\ game_won
          /\ wrong_guesses = 1
          /\ outcomes[Len(outcomes)] = <<TRUE, 25>>

\* The record load() gives: what load_statistics returns.
Loaded(file) == load_statistics(file).stats

\* load() accepts the file: load_statistics returns, and returns a record.
Accepted(file) == ~load_statistics(file).raised /\ load_statistics(file).dict

\* gamesPlayed = wins + losses, all three >= 0.
CountsAddUp(s) ==
    /\ s.games_played = s.wins + s.losses
    /\ s.games_played >= 0
    /\ s.wins >= 0
    /\ s.losses >= 0

\* C12: gamesPlayed = wins + losses, all three >= 0, after load and after
\* every recordOutcome, for any persisted record that load accepts, a
\* partial record with backfilled fields included.
C12_CountsAddUp ==
    /\ Accepted(stats_file) => CountsAddUp(Loaded(stats_file))
    /\ outcomes # <<>> => CountsAddUp(stats)

RECURSIVE SumScores(_)
SumScores(seq) ==
    IF seq = <<>> THEN 0 ELSE Head(seq)[2] + SumScores(Tail(seq))

Wins(seq) == Cardinality({i \in 1..Len(seq) : seq[i][1]})

Losses(seq) == Cardinality({i \in 1..Len(seq) : ~seq[i][1]})

\* C13: starting from one persisted record, the recorded outcomes give
\* gamesPlayed, wins, losses and totalScore that depend on the numbers of
\* wins and of losses and on the sum of the scores alone, not on the order:
\* every call adds one to gamesPlayed, one to exactly one of wins and
\* losses, and its score to totalScore.  Stated for a statistics.json that
\* takes the record and gives it back: one that can be written, and read
\* again once written.
C13_OrderIndependent ==
    (/\ stats_writable
     /\ stats0.kind # "unreadable"
     /\ Accepted(stats0)) =>
        LET base == Loaded(stats0)
            now  == Loaded(stats_file)
        IN /\ now.games_played = base.games_played + Len(outcomes)
           /\ now.wins = base.wins + Wins(outcomes)
           /\ now.losses = base.losses + Losses(outcomes)
           /\ now.total_score = base.total_score + SumScores(outcomes)
           /\ Wins(outcomes) + Losses(outcomes) = Len(outcomes)
           /\ outcomes # <<>> =>
                 /\ stats.games_played = now.games_played
                 /\ stats.wins = now.wins
                 /\ stats.losses = now.losses
                 /\ stats.total_score = now.total_score

\* C13 witness: a loss, a win of 25 points and a win of 10 points recorded,
\* in this order, on a record that had counts already.
C13_Witness ==
    /\ stats_writable
    /\ stats0 = FileObject(StatsFull)
    /\ outcomes = << <<FALSE, 0>>, <<TRUE, 25>>, <<TRUE, 10>> >>
    /\ stats.games_played = 5
    /\ stats.wins = 3

\* C14: load never fails: an absent or unreadable file, and content that is
\* no valid statistics record (malformed text, well-formed data that is no
\* object), give the all-zero defaults; a record with fields missing gives
\* that record with exactly the missing fields at their defaults.
C14_LoadNeverFails ==
    /\ ~load_statistics(stats_file).raised
    /\ stats_file.kind # "object" => Loaded(stats_file) = default_stats
    /\ stats_file.kind = "object" =>
          /\ DOMAIN Loaded(stats_file) = DOMAIN stats_file.data \cup StatsKeys
          /\ \A k \in DOMAIN Loaded(stats_file) :
                Loaded(stats_file)[k] =
                   IF k \in DOMAIN stats_file.data THEN stats_file.data[k]
                   ELSE default_stats[k]

\* The step in which start_new_game fails for want of a word: taken at the
\* category prompt, it leaves `started` failed and no word drawn, and has
\* changed `started` or the game state (a failure that finds both as it
\* leaves them changes nothing).
StartFails ==
    /\ pc = "category"
    /\ started' = "failed"
    /\ current_word' = <<>>
    /\ (started # "failed" \/ Game' # Game)

\* C15: when the word source has no word for the request (empty pool, empty
\* category), startGame reports failure, the game does not enter
\* InProgress (no guess is prompted or processed, no statistics recorded,
\* no transcript or directory made for it) and the run loop is back at the
\* category prompt, not ended.
C15_FailedStart ==
    /\ [](started = "failed" =>
             /\ pc \in {"category", "exit"}
             /\ current_word = <<>> => Game = reset_game_state
             /\ end_calls = <<>>)
    /\ [][StartFails =>
             /\ pc' = "category"
             /\ UNCHANGED <<stats_file, stats, logs, game_dirs, outcomes,
                            game_numbers, current_game_number>>]_vars

\* C15 witness: after a game that was won and recorded, a start has failed
\* and run_game is at the category prompt again.
C15_Witness ==
    /\ started = "failed"
    /\ pc = "category"
    /\ Len(outcomes) = 1
    /\ game_dirs = {1}
    /\ 1 \in DOMAIN logs

\* C16: if persisting the statistics fails inside recordOutcome, the
\* failure is not propagated: recordOutcome returns the updated record, the
\* end-of-game sequence goes on to the transcript write, which shows the
\* updated counts, and only the persisted update is missing.
C16_SaveFailureContained ==
    (~stats_writable /\ GameOver /\ Accepted(stats0)) =>
        /\ end_calls = EndSteps
        /\ stats_file = stats0
        /\ stats.games_played = Loaded(stats0).games_played + 1
        /\ stats.wins = Loaded(stats0).wins + (IF game_won THEN 1 ELSE 0)
        /\ stats.losses = Loaded(stats0).losses + (IF game_won THEN 0 ELSE 1)
        /\ stats.total_score = Loaded(stats0).total_score + score
        /\ current_game_number \in DOMAIN logs
        /\ logs[current_game_number].games_played = stats.games_played
        /\ logs[current_game_number].total_score = stats.total_score

\* C16 witness: a won game's record could not be saved over a full record;
\* end_game went through and run_game asks whether to play again.
C16_Witness ==
    /\ ~stats_writable
    /\ stats0 = FileObject(StatsFull)
    /\ stats_file = stats0
    /\ game_won
    /\ pc = "again"
    /\ stats.games_played = 3
    /\ stats.total_score = 50
    /\ 1 \in DOMAIN logs

\* The numbers in a sequence.
Range(seq) == {seq[i] : i \in 1..Len(seq)}

\* C17: every started game gets the number (largest existing game<N>
\* directory, 0 if none) + 1; over any games of an installation (won, lost,
\* quit midway) and any deletion of earlier, non-maximal directories no
\* number is reused, the game's directory is newly created, and no
\* existing transcript is overwritten or modified.
C17_FreshGameNumbers ==
    /\ [][game_numbers' # game_numbers =>
             /\ game_numbers' = Append(game_numbers, current_game_number')
             /\ current_game_number' =
                   (IF game_dirs = {} THEN 0 ELSE SetMax(game_dirs)) + 1
             /\ current_game_number' \notin game_dirs
             /\ current_game_number' \notin Range(game_numbers)
             /\ current_game_number' \notin DOMAIN logs
             /\ game_dirs' = game_dirs \cup {current_game_number'}
             /\ logs' = logs]_vars
    /\ [][\A n \in DOMAIN logs :
             n \in DOMAIN logs' => logs'[n] = logs[n]]_vars

\* C17 witness: in an installation holding game2 alone, the session's games
\* got 3 and 4 although game2 was deleted in between; game3's transcript is
\* there, one of the games was not won.
C17_Witness ==
    /\ game_numbers = <<3, 4>>
    /\ game_dirs = {3, 4}
    /\ DOMAIN logs = {3, 4}
    /\ logs[3].result = "Loss"

\* C18: guessCount is the number of accepted guesses of the game: the
\* letter guesses that were no repeats plus the whole-word guesses, each of
\* which counts, a repeat of an earlier whole-word guess too.
C18_GuessCount == guess_count = letter_guesses + word_guesses

\* C18 witness: a game with a letter guessed, the same wrong word guessed
\* three times and, last, a repeated letter.
C18_Witness ==
    /\ result = "repeated"
    /\ letter_guesses = 1
    /\ wrong_word_guesses = 3
    /\ guess_count = 4

\* The rendering of a word with no letter found.
Masked(word) == JoinSpaces([i \in 1..Len(word) |-> "_"])

\* s is a prefix of t.
IsPrefix(s, t) == Len(s) <= Len(t) /\ SubSeq(t, 1, Len(s)) = s

\* The ends of the annotations of a wrong letter and of a wrong word.
WrongNotes == {" wrong - no progress change)", "' wrong - no progress change)"}

\* play_game has processed a guess in this step: it is back at the letter
\* prompt with a new result or a changed game.
GuessStep ==
    /\ pc \in {"play", "word"}
    /\ pc' = "play"
    /\ <<gamevars, result>>' # <<gamevars, result>>

\* C19: in a started game progressTrace has guessCount + 1 entries, the
\* first the fully masked rendering; each accepted guess appends one entry,
\* the rendering after the guess, plain for a correct guess and annotated
\* 'wrong - no progress change' for a wrong letter or word; a repeated
\* letter appends nothing; entries are never changed or removed.
C19_TraceEntries ==
    /\ [](Started =>
             /\ Len(progress_trace) = guess_count + 1
             /\ progress_trace[1] = Masked(current_word))
    /\ [][pc # "category" => IsPrefix(progress_trace, progress_trace')]_vars
    /\ [][GuessStep =>
             IF result' = "repeated"
             THEN progress_trace' = progress_trace
             ELSE LET entry == progress_trace'[Len(progress_trace')]
                      shown == get_word_progress(Game')
                  IN /\ Len(progress_trace') = Len(progress_trace) + 1
                     /\ IF result' = "correct"
                        THEN entry = shown
                        ELSE /\ IsPrefix(shown, entry)
                             /\ Len(entry) > Len(shown)
                             /\ entry[Len(entry)] \in WrongNotes]_vars

\* C19 witness: a trace with the first entry, a correct letter's, a wrong
\* letter's and a wrong word's, after a repeated letter.
C19_Witness ==
    /\ result = "repeated"
    /\ Len(progress_trace) = 4
    /\ correct_letters # {}
    /\ wrong_letters # {}
    /\ wrong_word_guesses = 1

\* C20: after every successful startGame, also one that follows a finished
\* or abandoned game of the session, the three letter sets are empty,
\* wrongGuessCount and guessCount are 0, won and lost are false and
\* progressTrace holds one entry, the fully masked rendering of the new
\* target.
C20_FreshStart ==
    [][(pc = "category" /\ pc' = "play") =>
          /\ guessed_letters' = {}
          /\ correct_letters' = {}
          /\ wrong_letters' = {}
          /\ wrong_guesses' = 0
          /\ guess_count' = 0
          /\ ~game_won'
          /\ ~game_lost'
          /\ current_word' # <<>>
          /\ progress_trace' = <<Masked(current_word')>>]_vars

\* C20 witness: the second game of a session has just started, after a game
\* that was won with a wrong guess.
C20_Witness ==
    /\ pc = "play"
    /\ result = "none"
    /\ guess_count = 0
    /\ Len(game_numbers) = 2
    /\ outcomes = << <<TRUE, 25>> >>
    /\ progress_trace = <<Masked(WordCat)>>

\* The quit input has been entered at the letter prompt or at the whole-word
\* prompt: the only step that leaves play_game's loop with the game in
\* progress.
QuitAtGuess ==
    /\ pc \in {"play", "word"}
    /\ PlayLoopCondition
    /\ pc' \notin {"play", "word"}

\* C21: entering the quit input at any prompt (category selection, letter
\* guess, whole-word guess) exits the program, the run loop ending without
\* any further prompt; the run loop ends otherwise only when the player
\* declines to play again (or, abnormally, when end_game raises).
C21_QuitExits ==
    [][/\ QuitAtGuess => pc' = "exit"
       /\ (pc = "category" /\ pc' \notin {"category", "play"}) => pc' = "exit"
       /\ (pc' = "exit" /\ pc # "exit") =>
             \/ QuitAtGuess
             \/ pc \in {"category", "again"}
             \/ pc = "play" /\ ~PlayLoopCondition]_vars

\* No word data can be loaded: the words directory has no words.txt and no
\* category file.
NoWordData == words_dir.main = {} /\ DOMAIN words_dir.categories = {}

\* C22: if no word data at all can be loaded at startup (no main word list
\* and no category lists), the process aborts at startup with an error and
\* never reaches the category-selection prompt.
C22_NoWordsAborts == NoWordData => pc \in {"startup", "aborted"}

\* What input() may give at the letter prompt: every letter in either
\* case, this session's player's lines, lines that are no letter, and the
\* end of the input.
LetterLines ==
    Lines({<<c>> : c \in LowerLetters \cup UpperLetters})
        \cup keys.letter
        \cup Lines({<<"q", "u", "i", "t">>, <<"Q", "U", "I", "T">>,
                   <<"e", "x", "i", "t">>, <<"g", "u", "e", "s", "s">>,
                   <<"a", "b">>, <<"1">>, <<"-">>, <<" ">>, <<>>,
                   <<" ", "a">>, <<"Z", "\t">>, <<"U+0100">>, <<"U+0130">>})
        \cup {InputEOF, InputInterrupt}

\* The line typed is, spaces around it aside, one alphabetic character.
SingleLetter(raw) ==
    /\ raw.raised = "none"
    /\ Len(Strip(raw.line)) = 1
    /\ IsAlpha(Strip(raw.line)[1])

\* C23: at the letter prompt, every input that is a single alphabetic
\* character is handed to the letter guess as that letter, lower-cased, for
\* all 26 letters; a typed line gives the quit sentinel only when it is an
\* explicit quit input; every other input is re-prompted (or, for 'guess',
\* switches to the whole-word prompt) and reaches no guess.
C23_LetterGate ==
    (pc = "play" /\ PlayLoopCondition) =>
        \A raw \in LetterLines :
            /\ SingleLetter(raw) =>
                  get_user_guess(raw) = Str(Lower(Strip(raw.line)[1]))
            /\ (raw.raised = "none" /\ get_user_guess(raw) = "quit") =>
                  StrLower(raw.line) \in QuitWordSeqs
            /\ ~SingleLetter(raw) =>
                  get_user_guess(raw) \in {"quit", "guess", "reprompt"}

\* C24: in every state the progress rendering has one token per character
\* of the target, in word order, with a single space between neighbours;
\* the token is the character itself when it is in correct_letters and '_'
\* otherwise; so a character of the target that is no letter (a space, a
\* hyphen) stays masked whatever letters were guessed and after a correct
\* whole-word guess.
C24_ProgressTokens ==
    LET shown == get_word_progress(Game)
        n     == Len(current_word)
    IN /\ Len(shown) = IF n = 0 THEN 0 ELSE 2 * n - 1
       /\ \A i \in 1..n :
             /\ shown[2 * i - 1] = IF current_word[i] \in correct_letters
                                   THEN current_word[i] ELSE "_"
             /\ ~IsAlpha(current_word[i]) => shown[2 * i - 1] = "_"
             /\ i < n => shown[2 * i] = " "

\* C24 witness: the two-word target 'ab a' has been won by a whole-word
\* guess, and its space is still shown masked.
C24_Witness ==
    /\ current_word = WordAB_A
    /\ game_won
    /\ word_guesses > 0
    /\ get_word_progress(Game) = <<"a", " ", "b", " ", "_", " ", "a">>

\* C25: the transcript of a game that has ended lists, under 'Guesses (in
\* order)', one entry per letter of guessed_letters, numbered from 1 to
\* their count, marked Correct when the letter is in correct_letters and
\* Wrong otherwise, in the chronological order in which the letters were
\* guessed; whole-word guesses add no entry; and 'Remaining Attempts at End'
\* is 6 minus wrong_guesses.
C25_GuessesInOrder ==
    (end_calls = EndSteps /\ current_game_number \in DOMAIN logs) =>
        /\ logs[current_game_number].remaining = 6 - wrong_guesses
        /\ \A entries \in save_game_log_guesses(Game) :
              /\ Len(entries) = Cardinality(guessed_letters)
              /\ \A i \in 1..Len(entries) :
                    /\ entries[i].number = i
                    /\ entries[i].letter \in guessed_letters
                    /\ entries[i].note = "Correct" <=>
                          entries[i].letter \in correct_letters
              /\ LET guessed == SelectSeq(entries,
                                 LAMBDA e : e.letter \in Range(guess_order))
                 IN [i \in 1..Len(guessed) |-> guessed[i].letter] = guess_order

\* play_game is at the head of its loop or at one of its two prompts: it
\* has rendered the game and waits for a guess.
Prompting == pc \in {"play", "word"} /\ PlayLoopCondition

\* C26: whenever play_game renders the game or prompts for a guess,
\* 0 <= wrong_guesses < max_wrong_guesses, so the remaining attempts shown
\* are not negative and the hangman stage asked for is one of 0..6; and
\* wrong_guesses never exceeds 6, at the end of a game either.
C26_WrongInRange ==
    /\ wrong_guesses \in 0..6
    /\ Prompting =>
          /\ 0 <= wrong_guesses
          /\ wrong_guesses < max_wrong_guesses
          /\ display_game_state(Game).remaining >= 0
          /\ ~display_game_state(Game).art.raised
          /\ display_game_state(Game).art.stage \in 0..6
    /\ \A n \in DOMAIN logs : logs[n].remaining >= 0

\* C26 witness: the game is rendered with five wrong guesses, one attempt
\* left, at the letter prompt; and a game has been lost with six.
C26_Witness ==
    /\ pc = "play"
    /\ PlayLoopCondition
    /\ wrong_guesses = 5
    /\ display_game_state(Game).remaining = 1
    /\ display_game_state(Game).art.stage = 5

\* C26 witness of the end of a game: lost with six wrong guesses, the
\* transcript written with no attempt remaining.
C26_LostWitness ==
    /\ game_lost
    /\ wrong_guesses = 6
    /\ current_game_number \in DOMAIN logs
    /\ logs[current_game_number].remaining = 0

\* The accepted guesses of this game: new letters and whole words.
AcceptedGuesses == letter_guesses + word_guesses

\* The distinct alphabetic letters of the target.
DistinctLetters == Cardinality(WordLetters(current_word))

\* C27: a started game ends once the player stops repeating letters: it
\* takes at most (distinct alphabetic letters of the target + 6) accepted
\* guesses (new letters or whole words), so while the play loop still asks
\* for a guess fewer than that many have been accepted.
C27_GameEnds ==
    Started =>
        /\ AcceptedGuesses <= DistinctLetters + 6
        /\ guess_count <= DistinctLetters + 6
        /\ Prompting => AcceptedGuesses < DistinctLetters + 6

\* C27 witness: the hyphenated target 'a-b' lost with the last of 2 + 6
\* accepted guesses, both letters found and six wrong guesses, whole words
\* among them.
C27_Witness ==
    /\ current_word = WordAHypB
    /\ game_lost
    /\ pc = "again"
    /\ correct_letters = {"a", "b"}
    /\ word_guesses > 0
    /\ AcceptedGuesses = DistinctLetters + 6

\* The current game was abandoned: play_game has been left by quit, the game
\* neither won nor lost.
Abandoned ==
    /\ Started
    /\ started = "ok"
    /\ PlayLoopCondition
    /\ pc \in {"again", "category", "exit"}

\* C28: quitting during a game, at the letter prompt or at the whole-word
\* prompt, records nothing: statistics.json holds what it held before the
\* game (games played, wins, losses, total score unchanged), end_game has
\* taken no step and no transcript exists for the game; yet the game's
\* numbered directory has been made and its number is used up.
C28_QuitRecordsNothing ==
    /\ [][QuitAtGuess => /\ UNCHANGED <<stats_file, stats, logs, game_dirs>>
                         /\ UNCHANGED <<outcomes, end_calls>>]_vars
    /\ [](Abandoned =>
             /\ stats_file = stats_before
             /\ end_calls = <<>>
             /\ Len(outcomes) < Len(game_numbers)
             /\ current_game_number \notin DOMAIN logs
             /\ current_game_number \in game_dirs
             /\ get_next_game_number > current_game_number)

\* C28 witness: the second game of a session was quit after a guess, the
\* first having been won and recorded; the player has asked for another
\* game.
C28_Witness ==
    /\ Abandoned
    /\ pc = "category"
    /\ guess_count > 0
    /\ Len(game_numbers) = 2
    /\ Len(outcomes) = 1
    /\ stats_file.kind = "object"
    /\ stats_file.data["games_played"] = 1
    /\ DOMAIN logs = {1}
    /\ game_dirs = {1, 2}

=============================================================================
